---- MODULE Spec2Model ----
(***************************************************************************)
(* A model of the Sharenote arithmetic library (src/snip00/snip00.go).     *)
(*                                                                         *)
(* The library is a set of pure functions, so the state machine is the     *)
(* caller: each action is one call of a public operation with inputs drawn *)
(* from bounded sets, and the state records the call and what it returned. *)
(*                                                                         *)
(* Numbers.  A float64 that stands for a bit count (ZBits, a log2 result)  *)
(* is a record [k, c, n]: k = "fin" is the finite value c + n/NanoPerCent  *)
(* cents (one cent = 0.01 bit, 0 <= n < NanoPerCent, c any integer, so a   *)
(* negative value is its floor in cents plus a non-negative remainder);    *)
(* k = "huge" is a finite value far above 2^63 and "nhuge" one far below   *)
(* -2^63; "pinf", "ninf", "nan" are the IEEE specials.  One unit of n is   *)
(* 1e-9 cent, the epsilon of labelComponentsFromZBits: [k |-> "fin", c, n] *)
(* stands for the values in [c + n/NanoPerCent, c + (n+1)/NanoPerCent)     *)
(* cents, and a value written with n = 0 may carry float64 rounding noise  *)
(* of either sign, far below one unit.                                     *)
(*                                                                         *)
(* Text.  A string is a sequence of one-character strings; TAB stands for  *)
(* the tab character.                                                      *)
(***************************************************************************)
EXTENDS Integers, Sequences, FiniteSets, TLC

VARIABLES arch, op, args, ret, heap

vars == <<arch, op, args, ret, heap>>

------------------------------------------------------------------------------
(* Program constants                                                        *)

centZUnitsPerZ == 100
MinCentZ == 0
MaxCentZ == 99
\* 1e-9 cent, the epsilon added before the floor, is one unit of n.
NanoPerCent == 1000000000
\* Stand-in for math.MaxInt64: above every other integer of the model.
MaxInt == 2^30

------------------------------------------------------------------------------
(* Bounds of the model                                                      *)

\* Largest whole-Z value of the canonical labels that are parsed back.
MaxZ == 200
\* Largest whole-Z value of the labels written in variant spellings.
MaxVariantZ == 3
\* Largest integer handed to the integer constructors and coercions.
MaxIntArg == 3
\* Longest option list handed to an option-taking operation.
MaxOptions == 2
\* Longest list of notes handed to CombineNotesSerial.
MaxNotes == 3
\* Number of concurrent callers.
MaxCallers == 2

------------------------------------------------------------------------------
(* float64 values that stand for bit counts                                 *)

Fin(c, n) == [k |-> "fin", c |-> c, n |-> n]
Huge == [k |-> "huge", c |-> 0, n |-> 0]
PInf == [k |-> "pinf", c |-> 0, n |-> 0]
NInf == [k |-> "ninf", c |-> 0, n |-> 0]
NaN == [k |-> "nan", c |-> 0, n |-> 0]

\* float64(v) of an integer v that counts whole bits.
FromInt(v) == Fin(v * centZUnitsPerZ, 0)

isFinite(v) == v.k \notin {"nan", "pinf", "ninf"}

\* v < 0 as IEEE compares it (false for NaN).
IsNegative(v) == (v.k \in {"ninf", "nhuge"}) \/ (v.k = "fin" /\ v.c < 0)

\* a < b as IEEE compares it.
FLess(a, b) ==
  CASE a.k = "nan" \/ b.k = "nan" -> FALSE
    [] a.k = "ninf" -> b.k # "ninf"
    [] b.k = "ninf" -> FALSE
    [] b.k = "pinf" -> a.k # "pinf"
    [] a.k = "pinf" -> FALSE
    [] a.k = "nhuge" -> b.k # "nhuge"
    [] b.k = "nhuge" -> FALSE
    [] a.k = "huge" -> FALSE
    [] b.k = "huge" -> TRUE
    [] OTHER -> (a.c < b.c) \/ (a.c = b.c /\ a.n < b.n)

------------------------------------------------------------------------------
(* Sharenote and the results of the constructors                            *)

Sharenote(z, cents, zbits) ==
  [Z |-> z, Cents |-> cents, ZBits |-> zbits, labelOverride |-> <<>>]

ZeroSharenote == Sharenote(0, 0, Fin(0, 0))

Ok(note) == [out |-> "ok", note |-> note]
Err == [out |-> "err", note |-> ZeroSharenote]

\* Mutant: the upper clamp is missing.
clampCents_NoUpper(value) == IF value < MinCentZ THEN MinCentZ ELSE value

clampCents(value) ==
  IF value < MinCentZ THEN MinCentZ
  ELSE IF value > MaxCentZ THEN MaxCentZ
  ELSE value

\* Mutant: ZBits is computed from the cents as given, not as clamped.
noteFromComponents_UnclampedBits(z, cents) ==
  IF z < 0 THEN Err
  ELSE Ok(Sharenote(z, clampCents(cents), Fin(z * centZUnitsPerZ + cents, 0)))

noteFromComponents(z, cents) ==
  IF z < 0 THEN Err
  ELSE LET c == clampCents(cents)
       IN Ok(Sharenote(z, c, Fin(z * centZUnitsPerZ + c, 0)))

NoteFromComponents(z, cents) == noteFromComponents(z, cents)

\* int(math.Floor(v)) of a value no int can hold: Go leaves the result to the
\* implementation.  amd64 yields the minimum int, arm64 saturates.
OutOfRangeInt == IF arch = "amd64" THEN -MaxInt - 1 ELSE MaxInt

\* Floor of a finite value in cents, to whole bits.
FloorBits(c) == IF c >= 0 THEN c \div centZUnitsPerZ
                ELSE -((-c + centZUnitsPerZ - 1) \div centZUnitsPerZ)

\* Mutant: the 1e-9 epsilon is not added before the floor.
labelComponentsFromZBits_NoEpsilon(zbits) ==
  IF zbits.k = "huge"
  THEN <<IF OutOfRangeInt < 0 THEN 0 ELSE OutOfRangeInt, clampCents(OutOfRangeInt)>>
  ELSE LET z0 == FloorBits(zbits.c)
           z == IF z0 < 0 THEN 0 ELSE z0
       IN <<z, clampCents(zbits.c - z * centZUnitsPerZ)>>

labelComponentsFromZBits(zbits) ==
  IF zbits.k = "huge"
  THEN LET z0 == OutOfRangeInt
           z == IF z0 < 0 THEN 0 ELSE z0
           \* fractional is still above 2^63 / 0.01: out of range again
           rawCents == OutOfRangeInt
       IN <<z, clampCents(rawCents)>>
  ELSE LET z0 == FloorBits(zbits.c)
           z == IF z0 < 0 THEN 0 ELSE z0
           \* fractional / CentZBitStep, as whole cents and nano-cents
           fc == zbits.c - z * centZUnitsPerZ
           \* + 1e-9, then the floor
           rawCents == IF zbits.n + 1 >= NanoPerCent THEN fc + 1 ELSE fc
       IN <<z, clampCents(rawCents)>>

\* Mutant: a negative value is not refused.
NoteFromZBits_NoSignCheck(zbits) ==
  IF ~isFinite(zbits) THEN Err
  ELSE LET zc == labelComponentsFromZBits(zbits)
       IN Ok(Sharenote(zc[1], zc[2], zbits))

NoteFromZBits(zbits) ==
  IF ~isFinite(zbits) THEN Err
  ELSE IF IsNegative(zbits) THEN Err
  ELSE LET zc == labelComponentsFromZBits(zbits)
       IN Ok(Sharenote(zc[1], zc[2], zbits))

\* Mutant: a negative count is not refused (Go's / and % truncate to zero).
NoteFromCentZBits_NoSignCheck(centZ) ==
  IF centZ < 0
  THEN noteFromComponents(-((-centZ) \div centZUnitsPerZ),
                          -((-centZ) % centZUnitsPerZ))
  ELSE noteFromComponents(centZ \div centZUnitsPerZ, centZ % centZUnitsPerZ)

NoteFromCentZBits(centZ) ==
  IF centZ < 0 THEN Err
  ELSE noteFromComponents(centZ \div centZUnitsPerZ, centZ % centZUnitsPerZ)

------------------------------------------------------------------------------
(* Text                                                                     *)

Digits == {"0", "1", "2", "3", "4", "5", "6", "7", "8", "9"}
DigitChars == <<"0", "1", "2", "3", "4", "5", "6", "7", "8", "9">>

DigitVal(ch) == (CHOOSE i \in 1..10 : DigitChars[i] = ch) - 1

\* Characters unicode.IsSpace accepts; strings.TrimSpace strips all of them.
WhiteSpace == {" ", "TAB"}

RECURSIVE TrimLeft(_)
TrimLeft(s) ==
  IF s # <<>> /\ Head(s) \in WhiteSpace THEN TrimLeft(Tail(s)) ELSE s

RECURSIVE TrimRight(_)
TrimRight(s) ==
  IF s # <<>> /\ s[Len(s)] \in WhiteSpace
  THEN TrimRight(SubSeq(s, 1, Len(s) - 1)) ELSE s

TrimSpace(s) == TrimRight(TrimLeft(s))

\* strings.ReplaceAll(s, " ", ""): only the space character is removed.
RemoveSpaces(s) == SelectSeq(s, LAMBDA ch : ch # " ")

LowerCase ==
  <<"a", "b", "c", "d", "e", "f", "g", "h", "i", "j", "k", "l", "m",
    "n", "o", "p", "q", "r", "s", "t", "u", "v", "w", "x", "y", "z">>
UpperCase ==
  <<"A", "B", "C", "D", "E", "F", "G", "H", "I", "J", "K", "L", "M",
    "N", "O", "P", "Q", "R", "S", "T", "U", "V", "W", "X", "Y", "Z">>

UpperOf(ch) ==
  IF \E i \in 1..26 : LowerCase[i] = ch
  THEN UpperCase[CHOOSE i \in 1..26 : LowerCase[i] = ch]
  ELSE ch

ToUpper(s) == [i \in 1..Len(s) |-> UpperOf(s[i])]

LowerOf(ch) ==
  IF \E i \in 1..26 : UpperCase[i] = ch
  THEN LowerCase[CHOOSE i \in 1..26 : UpperCase[i] = ch]
  ELSE ch

ToLower(s) == [i \in 1..Len(s) |-> LowerOf(s[i])]

\* strings.ReplaceAll(s, old, new) for a non-empty old.
RECURSIVE ReplaceAll(_, _, _)
ReplaceAll(s, old, new) ==
  IF Len(s) < Len(old) THEN s
  ELSE IF SubSeq(s, 1, Len(old)) = old
  THEN new \o ReplaceAll(SubSeq(s, Len(old) + 1, Len(s)), old, new)
  ELSE <<Head(s)>> \o ReplaceAll(Tail(s), old, new)

HasPrefix(s, prefix) ==
  Len(s) >= Len(prefix) /\ SubSeq(s, 1, Len(prefix)) = prefix

HasSuffix(s, suffix) ==
  Len(s) >= Len(suffix)
  /\ SubSeq(s, Len(s) - Len(suffix) + 1, Len(s)) = suffix

TrimPrefix(s, prefix) ==
  IF HasPrefix(s, prefix) THEN SubSeq(s, Len(prefix) + 1, Len(s)) ELSE s

Contains(s, ch) == \E i \in 1..Len(s) : s[i] = ch

IsDigits(s) == Len(s) >= 1 /\ \A i \in 1..Len(s) : s[i] \in Digits

\* strconv.Atoi of a digit string that is within int's range.
RECURSIVE Atoi(_)
Atoi(s) ==
  IF s = <<>> THEN 0
  ELSE 10 * Atoi(SubSeq(s, 1, Len(s) - 1)) + DigitVal(s[Len(s)])

\* Index of the first ch in s, 0 when there is none.
IndexOf(s, ch) ==
  IF \E i \in 1..Len(s) : s[i] = ch
  THEN CHOOSE i \in 1..Len(s) : s[i] = ch /\ \A j \in 1..(i - 1) : s[j] # ch
  ELSE 0

\* fmt's %d of an integer.
RECURSIVE FormatNat(_)
FormatNat(v) ==
  IF v < 10 THEN <<DigitChars[v + 1]>>
  ELSE FormatNat(v \div 10) \o <<DigitChars[(v % 10) + 1]>>

FormatInt(v) == IF v < 0 THEN <<"-">> \o FormatNat(-v) ELSE FormatNat(v)

\* fmt's %02d of an integer in 0..99.
FormatCents(v) == IF v < 10 THEN <<"0">> \o FormatNat(v) ELSE FormatNat(v)

Label(n) ==
  IF n.labelOverride # <<>> THEN n.labelOverride
  ELSE FormatInt(n.Z) \o <<"Z">> \o FormatCents(clampCents(n.Cents))

------------------------------------------------------------------------------
(* The three label grammars (reStandard, reDotted, reDecimal)               *)

NoMatch == [ok |-> FALSE, g1 |-> <<>>, g2 |-> <<>>]
Match(g1, g2) == [ok |-> TRUE, g1 |-> g1, g2 |-> g2]

\* Mutant: the cents group is \d, one digit only.
reStandard_OneDigit(s) ==
  LET p == IndexOf(s, "Z")
  IN IF p = 0 \/ ~IsDigits(SubSeq(s, 1, p - 1)) THEN NoMatch
     ELSE LET rest == SubSeq(s, p + 1, Len(s))
              hasCZ == Len(rest) >= 2
                       /\ SubSeq(rest, Len(rest) - 1, Len(rest)) = <<"C", "Z">>
              d == IF hasCZ THEN SubSeq(rest, 1, Len(rest) - 2) ELSE rest
          IN IF rest = <<>> THEN Match(SubSeq(s, 1, p - 1), <<>>)
             ELSE IF IsDigits(d) /\ Len(d) <= 1
                  THEN Match(SubSeq(s, 1, p - 1), d)
                  ELSE NoMatch

\* ^(\d+)Z(?:(\d{1,2})(?:CZ)?)?$
reStandard(s) ==
  LET p == IndexOf(s, "Z")
  IN IF p = 0 \/ ~IsDigits(SubSeq(s, 1, p - 1)) THEN NoMatch
     ELSE LET rest == SubSeq(s, p + 1, Len(s))
              hasCZ == Len(rest) >= 2
                       /\ SubSeq(rest, Len(rest) - 1, Len(rest)) = <<"C", "Z">>
              d == IF hasCZ THEN SubSeq(rest, 1, Len(rest) - 2) ELSE rest
          IN IF rest = <<>> THEN Match(SubSeq(s, 1, p - 1), <<>>)
             ELSE IF IsDigits(d) /\ Len(d) <= 2
                  THEN Match(SubSeq(s, 1, p - 1), d)
                  ELSE NoMatch

\* ^(\d+)\.(\d{1,2})Z$
reDotted(s) ==
  LET p == IndexOf(s, ".")
  IN IF p = 0 \/ ~IsDigits(SubSeq(s, 1, p - 1)) THEN NoMatch
     ELSE LET rest == SubSeq(s, p + 1, Len(s))
              d == SubSeq(rest, 1, Len(rest) - 1)
          IN IF Len(rest) >= 2 /\ rest[Len(rest)] = "Z"
                /\ IsDigits(d) /\ Len(d) <= 2
             THEN Match(SubSeq(s, 1, p - 1), d)
             ELSE NoMatch

\* ^(\d+(?:\.\d+)?)Z$ ; g1 holds the integer digits, g2 the fraction digits.
reDecimal(s) ==
  IF Len(s) < 2 \/ s[Len(s)] # "Z" THEN NoMatch
  ELSE LET body == SubSeq(s, 1, Len(s) - 1)
           p == IndexOf(body, ".")
       IN IF p = 0
          THEN (IF IsDigits(body) THEN Match(body, <<>>) ELSE NoMatch)
          ELSE IF IsDigits(SubSeq(body, 1, p - 1))
                  /\ IsDigits(SubSeq(body, p + 1, Len(body)))
               THEN Match(SubSeq(body, 1, p - 1), SubSeq(body, p + 1, Len(body)))
               ELSE NoMatch

\* Digits of a fraction, cut or zero-padded to exactly w digits.
RECURSIVE PadRight(_, _)
PadRight(d, w) ==
  IF Len(d) >= w THEN SubSeq(d, 1, w) ELSE PadRight(d \o <<"0">>, w)

\* strconv.ParseFloat of <int digits>.<fraction digits>: the first two
\* fraction digits are cents, the next nine are nano-cents; what follows is
\* below the model's unit.
ParseFloat(intDigits, fracDigits) ==
  LET f == PadRight(fracDigits, 11)
  IN Fin(Atoi(intDigits) * centZUnitsPerZ + Atoi(SubSeq(f, 1, 2)),
         Atoi(SubSeq(f, 3, 11)))

parseLabel(label) ==
  LET cleaned == ToUpper(RemoveSpaces(TrimSpace(label)))
      std == reStandard(cleaned)
      dot == reDotted(cleaned)
      dec == reDecimal(cleaned)
  IN IF std.ok
     THEN noteFromComponents(Atoi(std.g1),
                             IF std.g2 # <<>> THEN Atoi(std.g2) ELSE 0)
     ELSE IF dot.ok
     THEN noteFromComponents(Atoi(dot.g1), Atoi(PadRight(dot.g2, 2)))
     ELSE IF dec.ok
     THEN NoteFromZBits(ParseFloat(dec.g1, dec.g2))
     ELSE Err

------------------------------------------------------------------------------
(* EnsureNote: an input is [type, val]; a *Sharenote is <<>> when nil and   *)
(* <<note>> when it points to note.                                         *)

SignedTypes == {"int", "int8", "int16", "int32", "int64"}
UnsignedTypes == {"uint", "uint8", "uint16", "uint32", "uint64"}
FloatTypes == {"float64", "float32"}

\* Mutant: a Sharenote is rebuilt from its Z and Cents instead of returned.
EnsureNote_Requantise(input) ==
  CASE input.type = "Sharenote" -> noteFromComponents(input.val.Z, input.val.Cents)
    [] input.type = "*Sharenote" ->
         IF input.val = <<>> THEN Err ELSE Ok(input.val[1])
    [] input.type = "string" -> parseLabel(input.val)
    [] input.type \in FloatTypes -> NoteFromZBits(input.val)
    [] input.type \in SignedTypes \cup UnsignedTypes ->
         NoteFromZBits(FromInt(input.val))
    [] OTHER -> Err

EnsureNote(input) ==
  CASE input.type = "Sharenote" -> Ok(input.val)
    [] input.type = "*Sharenote" ->
         IF input.val = <<>> THEN Err ELSE Ok(input.val[1])
    [] input.type = "string" -> parseLabel(input.val)
    [] input.type \in FloatTypes -> NoteFromZBits(input.val)
    [] input.type \in SignedTypes \cup UnsignedTypes ->
         NoteFromZBits(FromInt(input.val))
    [] OTHER -> Err

------------------------------------------------------------------------------
(* CompareNotes                                                             *)

\* Mutant: the cents are compared before Z.
CompareNotes_CentsFirst(a, b) ==
  LET ra == EnsureNote(a)
      rb == EnsureNote(b)
  IN IF ra.out # "ok" \/ rb.out # "ok" THEN [out |-> "err", cmp |-> 0]
     ELSE IF ra.note.Cents # rb.note.Cents
          THEN [out |-> "ok", cmp |-> IF ra.note.Cents < rb.note.Cents THEN -1 ELSE 1]
          ELSE IF ra.note.Z < rb.note.Z THEN [out |-> "ok", cmp |-> -1]
          ELSE IF ra.note.Z > rb.note.Z THEN [out |-> "ok", cmp |-> 1]
          ELSE [out |-> "ok", cmp |-> 0]

CompareNotes(a, b) ==
  LET ra == EnsureNote(a)
      rb == EnsureNote(b)
      noteA == ra.note
      noteB == rb.note
  IN IF ra.out # "ok" THEN [out |-> "err", cmp |-> 0]
     ELSE IF rb.out # "ok" THEN [out |-> "err", cmp |-> 0]
     ELSE IF noteA.Z # noteB.Z
          THEN (IF noteA.Z < noteB.Z THEN [out |-> "ok", cmp |-> -1]
                ELSE [out |-> "ok", cmp |-> 1])
          ELSE IF noteA.Cents < noteB.Cents THEN [out |-> "ok", cmp |-> -1]
          ELSE IF noteA.Cents > noteB.Cents THEN [out |-> "ok", cmp |-> 1]
          ELSE [out |-> "ok", cmp |-> 0]

------------------------------------------------------------------------------
(* float64 values that stand for quantities (difficulties, probabilities,   *)
(* hash counts, hashrates, seconds, multipliers, factors).  They are kept   *)
(* by sign and log2 of the magnitude: [k |-> "pos", c, n] is the value      *)
(* 2^((c + n/NanoPerCent)/100), "neg" is its negation and "zero" is 0.      *)
(* PInf, NInf and NaN are the records of the bit counts.  Sums and          *)
(* differences are taken on the same grid of 1e-9 cent, rounded down.       *)

Pos(c, n) == [k |-> "pos", c |-> c, n |-> n]
Neg(c, n) == [k |-> "neg", c |-> c, n |-> n]
Zero == [k |-> "zero", c |-> 0, n |-> 0]
One == Pos(0, 0)

\* A finite bit count below -2^63 (8 * float64(exponent - 3) after the
\* unsigned subtraction wrapped, negated).
NHuge == [k |-> "nhuge", c |-> 0, n |-> 0]

\* float64 holds magnitudes from 2^-1074 up to 2^1024 (excluded).
MaxExp2 == 1024 * centZUnitsPerZ
MinExp2 == (-1074) * centZUnitsPerZ

IsInf(v) == v.k \in {"pinf", "ninf"}
IsNeg(v) == v.k \in {"neg", "ninf"}

\* v <= 0 as IEEE compares it (false for NaN).
LeqZero(v) == v.k \in {"zero", "neg", "ninf"}

\* The float64 of the given sign and log2 magnitude: overflow gives an
\* infinity and underflow gives zero.
Round(negative, c, n) ==
  IF c >= MaxExp2 THEN (IF negative THEN NInf ELSE PInf)
  ELSE IF c < MinExp2 THEN Zero
  ELSE IF negative THEN Neg(c, n) ELSE Pos(c, n)

Negate(v) ==
  CASE v.k = "pos" -> Neg(v.c, v.n)
    [] v.k = "neg" -> Pos(v.c, v.n)
    [] v.k = "pinf" -> NInf
    [] v.k = "ninf" -> PInf
    [] OTHER -> v

\* The significand of a float64 is its place within the octave; how a
\* product rounds depends on the two significands only.
Significand(v) == <<v.c % centZUnitsPerZ, v.n>>

\* Pairs of significands whose float64 product falls below the exact one, so
\* that a product that would be a power of two is the float64 just under it:
\* float64(1 / 49) * 49 = 0.9999999999999999.
ProductsRoundedBelow == { << <<38, 529015589>>, <<61, 470984411>> >> }

\* a * b
Mul(a, b) ==
  CASE a.k = "nan" \/ b.k = "nan" -> NaN
    [] a.k = "zero" /\ IsInf(b) -> NaN
    [] b.k = "zero" /\ IsInf(a) -> NaN
    [] a.k = "zero" \/ b.k = "zero" -> Zero
    [] IsInf(a) \/ IsInf(b) -> IF IsNeg(a) = IsNeg(b) THEN PInf ELSE NInf
    [] OTHER -> LET below == IF <<Significand(a), Significand(b)>>
                                   \in ProductsRoundedBelow THEN 1 ELSE 0
                    s == a.n + b.n - below
                IN Round(IsNeg(a) # IsNeg(b),
                         a.c + b.c + (IF s < 0 THEN -1 ELSE s \div NanoPerCent),
                         IF s < 0 THEN NanoPerCent - 1 ELSE s % NanoPerCent)

\* a / b
Div(a, b) ==
  CASE a.k = "nan" \/ b.k = "nan" -> NaN
    [] IsInf(a) /\ IsInf(b) -> NaN
    [] a.k = "zero" /\ b.k = "zero" -> NaN
    [] IsInf(a) -> IF IsNeg(a) = IsNeg(b) THEN PInf ELSE NInf
    [] IsInf(b) -> Zero
    [] a.k = "zero" -> Zero
    [] b.k = "zero" -> IF IsNeg(a) THEN NInf ELSE PInf
    [] OTHER -> LET d == a.n - b.n
                IN Round(IsNeg(a) # IsNeg(b),
                         a.c - b.c - (IF d < 0 THEN 1 ELSE 0),
                         (d + NanoPerCent) % NanoPerCent)

\* -x of a bit count.
NegBits(v) ==
  CASE v.k = "fin" -> IF v.n = 0 THEN Fin(-v.c, 0)
                      ELSE Fin(-v.c - 1, NanoPerCent - v.n)
    [] v.k = "huge" -> NHuge
    [] v.k = "nhuge" -> Huge
    [] v.k = "pinf" -> NInf
    [] v.k = "ninf" -> PInf
    [] OTHER -> v

\* math.Exp2 of a bit count.
Exp2(v) ==
  CASE v.k = "fin" -> Round(FALSE, v.c, v.n)
    [] v.k \in {"huge", "pinf"} -> PInf
    [] v.k \in {"nhuge", "ninf"} -> Zero
    [] OTHER -> NaN

\* math.Log2 of a quantity.
Log2(v) ==
  CASE v.k = "pos" -> Fin(v.c, v.n)
    [] v.k = "zero" -> NInf
    [] v.k = "pinf" -> PInf
    [] OTHER -> NaN

\* Order and difference of two log2 magnitudes.
LgLess(a, b) == (a.c < b.c) \/ (a.c = b.c /\ a.n < b.n)

LgDiff(hi, lo) ==
  IF hi.n >= lo.n THEN <<hi.c - lo.c, hi.n - lo.n>>
  ELSE <<hi.c - lo.c - 1, hi.n - lo.n + NanoPerCent>>

\* From this many cents of distance on, log2(1 + 2^-d) is below one unit of
\* the grid, and log2(1 - 2^-d) is one unit below zero.
SumCutoff == 3707
\* From this many cents on, float64 absorbs the smaller operand.
AbsorbCutoff == 5400

\* log2(1 + 2^-d), d = <<cents, nano-cents>>, for the distances that the
\* sampled notes produce.
Log2OnePlusTable ==
  (<<0, 0>> :> <<100, 0>>) @@ (<<0, 23>> :> <<99, 999999988>>)
  @@ (<<0, 46>> :> <<99, 999999977>>) @@ (<<0, 256744>> :> <<99, 999871628>>)
  @@ (<<0, 513488>> :> <<99, 999743256>>) @@ (<<0, 13071397>> :> <<99, 993464449>>)
  @@ (<<0, 13071420>> :> <<99, 993464438>>) @@ (<<0, 26141610>> :> <<99, 986929787>>)
  @@ (<<100, 0>> :> <<58, 496250072>>) @@ (<<100, 11>> :> <<58, 496250068>>)
  @@ (<<100, 128372>> :> <<58, 496207281>>) @@ (<<100, 6535846>> :> <<58, 494071489>>)
  @@ (<<158, 496250072>> :> <<41, 503749927>>) @@ (<<1184, 503749928>> :> <<0, 39210640>>)
  @@ (<<1242, 999871628>> :> <<0, 26141634>>) @@ (<<1243, 0>> :> <<0, 26141610>>)
  @@ (<<1342, 999486512>> :> <<0, 13071444>>) @@ (<<1342, 999743256>> :> <<0, 13071420>>)
  @@ (<<1343, 0>> :> <<0, 13071397>>) @@ (<<1343, 23>> :> <<0, 13071397>>)
  @@ (<<1343, 46>> :> <<0, 13071397>>) @@ (<<1343, 13071397>> :> <<0, 13070213>>)
  @@ (<<1343, 13071420>> :> <<0, 13070213>>) @@ (<<1343, 26141610>> :> <<0, 13069029>>)
  @@ (<<1443, 0>> :> <<0, 6535846>>) @@ (<<1443, 11>> :> <<0, 6535846>>)
  @@ (<<1443, 6535846>> :> <<0, 6535550>>) @@ (<<1501, 496250072>> :> <<0, 4357264>>)
  @@ (<<1751, 503749928>> :> <<0, 770232>>) @@ (<<1810, 0>> :> <<0, 513488>>)
  @@ (<<1910, 0>> :> <<0, 256744>>) @@ (<<1910, 256744>> :> <<0, 256744>>)
  @@ (<<1910, 513488>> :> <<0, 256743>>) @@ (<<2010, 0>> :> <<0, 128372>>)
  @@ (<<2010, 128372>> :> <<0, 128372>>) @@ (<<2068, 496250072>> :> <<0, 85581>>)
  @@ (<<3094, 503749928>> :> <<0, 69>>) @@ (<<3153, 0>> :> <<0, 46>>)
  @@ (<<3253, 0>> :> <<0, 23>>) @@ (<<3253, 23>> :> <<0, 23>>)
  @@ (<<3253, 46>> :> <<0, 23>>) @@ (<<3253, 13071397>> :> <<0, 23>>)
  @@ (<<3253, 13071420>> :> <<0, 23>>) @@ (<<3253, 26141610>> :> <<0, 23>>)
  @@ (<<3353, 0>> :> <<0, 11>>) @@ (<<3353, 11>> :> <<0, 11>>)
  @@ (<<3353, 6535846>> :> <<0, 11>>) @@ (<<3411, 496250072>> :> <<0, 7>>)

\* log2(1 - 2^-d) for d > 0, likewise.
Log2OneMinusTable ==
  (<<0, 781200000>> :> <<-754, 723705415>>) @@ (<<50, 0>> :> <<-178, 844669683>>)
  @@ (<<100, 0>> :> <<-100, 0>>) @@ (<<150, 0>> :> <<-63, 60312661>>)
  @@ (<<200, 0>> :> <<-42, 496250072>>) @@ (<<1343, 0>> :> <<-1, 986927418>>)
  @@ (<<1343, 781200000>> :> <<-1, 986998016>>) @@ (<<1910, 0>> :> <<-1, 999743254>>)
  @@ (<<1960, 0>> :> <<-1, 999818453>>)
  @@ (<<2010, 0>> :> <<-1, 999871627>>) @@ (<<2110, 0>> :> <<-1, 999935813>>)
  @@ (<<3253, 0>> :> <<-1, 999999976>>) @@ (<<3253, 781200000>> :> <<-1, 999999976>>)
  @@ (<<3303, 0>> :> <<-1, 999999983>>) @@ (<<3303, 781200000>> :> <<-1, 999999983>>)
  @@ (<<3353, 0>> :> <<-1, 999999988>>) @@ (<<3353, 781200000>> :> <<-1, 999999988>>)
  @@ (<<3453, 0>> :> <<-1, 999999994>>) @@ (<<3453, 781200000>> :> <<-1, 999999994>>)

Log2OnePlus(d) == IF d[1] >= SumCutoff THEN <<0, 0>> ELSE Log2OnePlusTable[d]

Log2OneMinus(d) ==
  IF d[1] >= AbsorbCutoff THEN <<0, 0>>
  ELSE IF d[1] >= SumCutoff THEN <<-1, NanoPerCent - 1>>
  ELSE Log2OneMinusTable[d]

\* a + b
Add(a, b) ==
  CASE a.k = "nan" \/ b.k = "nan" -> NaN
    [] IsInf(a) /\ IsInf(b) -> IF a.k = b.k THEN a ELSE NaN
    [] IsInf(a) -> a
    [] IsInf(b) -> b
    [] a.k = "zero" -> b
    [] b.k = "zero" -> a
    [] OTHER ->
         LET hi == IF LgLess(a, b) THEN b ELSE a
             lo == IF LgLess(a, b) THEN a ELSE b
             d == LgDiff(hi, lo)
             t == IF a.k = b.k THEN Log2OnePlus(d) ELSE Log2OneMinus(d)
             s == hi.n + t[2]
         IN IF a.k # b.k /\ d = <<0, 0>> THEN Zero
            ELSE Round(hi.k = "neg", hi.c + t[1] + (s \div NanoPerCent),
                       s % NanoPerCent)

\* a - b
Sub(a, b) == Add(a, Negate(b))

\* a < b
QLess(a, b) ==
  LET rank(v) == CASE v.k = "ninf" -> 0 [] v.k = "neg" -> 1 [] v.k = "zero" -> 2
                   [] v.k = "pos" -> 3 [] OTHER -> 4
  IN CASE a.k = "nan" \/ b.k = "nan" -> FALSE
       [] a.k = "pos" /\ b.k = "pos" -> LgLess(a, b)
       [] a.k = "neg" /\ b.k = "neg" -> LgLess(b, a)
       [] OTHER -> rank(a) < rank(b)

\* zbits + CentZBitStep
AddCent(v) == IF v.k = "fin" THEN Fin(v.c + 1, v.n) ELSE v

------------------------------------------------------------------------------
(* Hashrate units and reliability presets                                   *)

\* A float64 result with its error: (value, nil) and (0, err).
OkQ(v) == [out |-> "ok", val |-> v]
ErrQ == [out |-> "err", val |-> Zero]
OkBits(v) == [out |-> "ok", val |-> v]
ErrBits == [out |-> "err", val |-> Fin(0, 0)]
\* A call that did not return: a nil function value was called.
Panic == [out |-> "panic", val |-> <<>>]

\* Body applied to a result that is computed once (x := value; Body(x)).
With(value, Body(_)) == CHOOSE r \in { Body(x) : x \in {value} } : TRUE

\* A confidence is a plain number kept in hundredths, as [k, c, n].
Confidence(percent, nano) == Fin(percent, nano)

ReliabilityMean == "mean"
ReliabilityUsually90 == "usually_90"
ReliabilityOften95 == "often_95"
ReliabilityVeryLikely99 == "very_likely_99"
ReliabilityAlmost999 == "almost_999"

\* The float64 cells that floatPtr allocates while the package initialises,
\* one per preset with a confidence, and the values they start with.  The
\* variable heap holds their current contents.
floatPtrCells ==
  (ReliabilityUsually90 :> Confidence(90, 0))
  @@ (ReliabilityOften95 :> Confidence(95, 0))
  @@ (ReliabilityVeryLikely99 :> Confidence(99, 0))
  @@ (ReliabilityAlmost999 :> Confidence(99, 900000000))

\* A *float64: <<>> is nil, <<"cell", id>> is the address of a package cell,
\* <<v>> is a cell of its own that nothing else refers to, holding v.
floatPtr(id) == <<"cell", id>>
IsPackageCell(p) == Len(p) = 2
Deref(p) == IF IsPackageCell(p) THEN heap[p[2]] ELSE p[1]

\* Confidence: a pointer.  Multiplier: the literal of the
\* source, as sign and log2 (2.302585092994046 is 2^1.20325447269).
reliabilityLevels ==
  (ReliabilityMean :>
     [ID |-> ReliabilityMean, Label |-> "On average",
      Confidence |-> <<>>, Multiplier |-> One])
  @@ (ReliabilityUsually90 :>
     [ID |-> ReliabilityUsually90, Label |-> "Usually (90%)",
      Confidence |-> floatPtr(ReliabilityUsually90),
      Multiplier |-> Pos(120, 325447269)])
  @@ (ReliabilityOften95 :>
     [ID |-> ReliabilityOften95, Label |-> "Often (95%)",
      Confidence |-> floatPtr(ReliabilityOften95),
      Multiplier |-> Pos(158, 290869693)])
  @@ (ReliabilityVeryLikely99 :>
     [ID |-> ReliabilityVeryLikely99, Label |-> "Very likely (99%)",
      Confidence |-> floatPtr(ReliabilityVeryLikely99),
      Multiplier |-> Pos(220, 325447269)])
  @@ (ReliabilityAlmost999 :>
     [ID |-> ReliabilityAlmost999, Label |-> "Almost certain (99.9%)",
      Confidence |-> floatPtr(ReliabilityAlmost999),
      Multiplier |-> Pos(278, 821697342)])

\* The five presets as struct copies: each copy's Confidence is the pointer
\* held by the table.
ReliabilityLevels ==
  <<reliabilityLevels[ReliabilityMean], reliabilityLevels[ReliabilityUsually90],
    reliabilityLevels[ReliabilityOften95],
    reliabilityLevels[ReliabilityVeryLikely99],
    reliabilityLevels[ReliabilityAlmost999]>>

\* confidence <= 0 and confidence >= 1 as IEEE compares them.
ConfidenceLeqZero(v) ==
  (v.k \in {"ninf", "nhuge"}) \/ (v.k = "fin" /\ (v.c < 0 \/ (v.c = 0 /\ v.n = 0)))
ConfidenceGeqOne(v) ==
  (v.k \in {"pinf", "huge"}) \/ (v.k = "fin" /\ v.c >= centZUnitsPerZ)

\* -math.Log(1 - confidence) for the sampled confidences inside (0,1).
NegLogOneMinusTable ==
  (Confidence(50, 0) :> Pos(-53, 123362705))
  @@ (Confidence(90, 0) :> Pos(120, 325447269))
  @@ (Confidence(95, 0) :> Pos(158, 290869693))
  @@ (Confidence(99, 0) :> Pos(220, 325447269))
  @@ (Confidence(99, 900000000) :> Pos(278, 821697342))

\* -math.Log(1 - confidence), called with a confidence that passed the
\* (0,1) test: a number inside (0,1), or NaN.
NegLogOneMinus(confidence) ==
  IF confidence.k = "nan" THEN NaN ELSE NegLogOneMinusTable[confidence]

hashrateUnits ==
  <<[unit |-> <<"H", "/", "s">>, exponent |-> 0],
    [unit |-> <<"k", "H", "/", "s">>, exponent |-> 1],
    [unit |-> <<"M", "H", "/", "s">>, exponent |-> 2],
    [unit |-> <<"G", "H", "/", "s">>, exponent |-> 3],
    [unit |-> <<"T", "H", "/", "s">>, exponent |-> 4],
    [unit |-> <<"P", "H", "/", "s">>, exponent |-> 5],
    [unit |-> <<"E", "H", "/", "s">>, exponent |-> 6],
    [unit |-> <<"Z", "H", "/", "s">>, exponent |-> 7]>>

hashratePrefixExponent ==
  (<<>> :> 0) @@ (<<"K">> :> 1) @@ (<<"M">> :> 2) @@ (<<"G">> :> 3)
  @@ (<<"T">> :> 4) @@ (<<"P">> :> 5) @@ (<<"E">> :> 6) @@ (<<"Z">> :> 7)

prefixToUnit ==
  [p \in DOMAIN hashratePrefixExponent |->
     hashrateUnits[hashratePrefixExponent[p] + 1].unit]

\* ^([KMGTPEZ]?)(H)/S$
hashrateUnitPattern(s) ==
  IF s = <<"H", "/", "S">> THEN Match(<<>>, <<"H">>)
  ELSE IF Len(s) = 4 /\ s[1] \in {"K", "M", "G", "T", "P", "E", "Z"}
          /\ SubSeq(s, 2, 4) = <<"H", "/", "S">>
  THEN Match(<<s[1]>>, <<"H">>)
  ELSE NoMatch

normalizeHashrateUnitString(raw) ==
  LET upper == ToUpper(TrimSpace(raw))
      bare == SelectSeq(upper, LAMBDA ch : ch \notin {"-", "_", " "})
      hps == ReplaceAll(bare, <<"H", "P", "S">>, <<"H", "/", "S">>)
      hs == ReplaceAll(hps, <<"H", "S">>, <<"H", "/", "S">>)
      suffixed == IF ~HasSuffix(hs, <<"/", "S">>) /\ Contains(hs, "H")
                  THEN hs \o <<"/", "S">> ELSE hs
  IN ReplaceAll(suffixed, <<"/", "S", "/", "S">>, <<"/", "S">>)

\* (exponent, canonical unit, error)
resolveHashrateUnit(unit) ==
  LET trimmed == TrimSpace(unit)
      match == hashrateUnitPattern(normalizeHashrateUnitString(trimmed))
  IN IF trimmed = <<>>
     THEN [out |-> "ok", exponent |-> 0, unit |-> hashrateUnits[1].unit]
     ELSE IF ~match.ok
     THEN [out |-> "err", exponent |-> 0, unit |-> <<>>]
     ELSE IF match.g1 \notin DOMAIN hashratePrefixExponent
     THEN [out |-> "err", exponent |-> 0, unit |-> <<>>]
     ELSE [out |-> "ok", exponent |-> hashratePrefixExponent[match.g1],
           unit |-> prefixToUnit[match.g1]]

\* math.Pow(10, float64(exponent*3)): 1000 is 2^9.96578428466.
RECURSIVE Pow1000(_)
Pow1000(exponent) ==
  IF exponent = 0 THEN One
  ELSE Mul(Pow1000(exponent - 1), Pos(996, 578428466))

HashrateValue(value, unit) == [Value |-> value, Unit |-> unit]

NormalizeHashrateValue(value) ==
  IF ~isFinite(value.Value) THEN ErrQ
  ELSE IF IsNeg(value.Value) THEN ErrQ
  ELSE LET unit == IF value.Unit = <<>> THEN hashrateUnits[1].unit
                   ELSE value.Unit
           resolved == resolveHashrateUnit(unit)
       IN IF resolved.out = "err" THEN ErrQ
          ELSE OkQ(Mul(value.Value, Pow1000(resolved.exponent)))

\* At(s, i) is the character of s at i, "" past its end.
At(s, i) == IF i <= Len(s) THEN s[i] ELSE ""

\* The first position from i on that does not hold a digit: \d*.
RECURSIVE SkipDigits(_, _)
SkipDigits(s, i) == IF At(s, i) \in Digits THEN SkipDigits(s, i + 1) ELSE i

\* (?:[_,]?\d+)* from i on.
RECURSIVE SkipGroups(_, _)
SkipGroups(s, i) ==
  IF At(s, i) \in Digits THEN SkipGroups(s, SkipDigits(s, i))
  ELSE IF At(s, i) \in {"_", ","} /\ At(s, i + 1) \in Digits
  THEN SkipGroups(s, SkipDigits(s, i + 1))
  ELSE i

\* [+-]? from i on.
SkipSign(s, i) == IF At(s, i) \in {"+", "-"} THEN i + 1 ELSE i

\* The end of [+-]?(?:\d+(?:[_,]?\d+)*(?:\.\d*)?|\.\d+) at the start of s:
\* the position after it, 0 when s does not start with it.
MantissaEnd(s) ==
  LET p == SkipSign(s, 1)
  IN IF At(s, p) \in Digits
     THEN LET q == SkipGroups(s, p)
          IN IF At(s, q) = "." THEN SkipDigits(s, q + 1) ELSE q
     ELSE IF At(s, p) = "." /\ At(s, p + 1) \in Digits
     THEN SkipDigits(s, p + 1)
     ELSE 0

\* (?:[eE][+-]?\d+)? from i on.
ExponentEnd(s, i) ==
  IF At(s, i) \in {"e", "E"} /\ At(s, SkipSign(s, i + 1)) \in Digits
  THEN SkipDigits(s, SkipSign(s, i + 1))
  ELSE i

\* [A-Za-z\/\s-]
UnitChars ==
  {LowerCase[i] : i \in 1..26} \cup {UpperCase[i] : i \in 1..26}
  \cup {"/", "-"} \cup WhiteSpace

hashrateStringPattern_NoSlash(s) ==
  LET m == MantissaEnd(s)
      e == ExponentEnd(s, m)
      rest == SubSeq(s, e, Len(s))
  IN IF m = 0 THEN NoMatch
     ELSE IF \E i \in 1..Len(rest) : rest[i] \notin UnitChars \ {"/"}
     THEN NoMatch
     ELSE Match(SubSeq(s, 1, e - 1), TrimLeft(rest))

\* ^(number)\s*([A-Za-z\/\s-]+)?$ : g1 is the number and g2 the unit.  What
\* follows the number holds no digit, sign, dot or separator, so the number
\* is the longest one the text starts with.
hashrateStringPattern(s) ==
  LET m == MantissaEnd(s)
      e == ExponentEnd(s, m)
      rest == SubSeq(s, e, Len(s))
  IN IF m = 0 THEN NoMatch
     ELSE IF \E i \in 1..Len(rest) : rest[i] \notin UnitChars THEN NoMatch
     ELSE Match(SubSeq(s, 1, e - 1), TrimLeft(rest))

\* strconv.ParseFloat(s, 64) for the sampled magnitudes: (value, nil), or an
\* error when the number is out of float64's range.
ParseFloat64Table ==
  (<<"5">> :> OkQ(Pos(232, 192809488)))
  @@ (<<"+", "5">> :> OkQ(Pos(232, 192809488)))
  @@ (<<"5", ".">> :> OkQ(Pos(232, 192809488)))
  @@ (<<"-", "5">> :> OkQ(Neg(232, 192809488)))
  @@ (<<"0">> :> OkQ(Zero))
  @@ (<<".", "5">> :> OkQ(Pos(-100, 0)))
  @@ (<<"1", "2", ".", "5">> :> OkQ(Pos(364, 385618977)))
  @@ (<<"1", "0", "0", "0">> :> OkQ(Pos(996, 578428466)))
  @@ (<<"1", "e", "3">> :> OkQ(Pos(996, 578428466)))
  @@ (<<"1", "e", "9", "9", "9">> :> ErrQ)
  @@ (<<"0", ".", "2", "5">> :> OkQ(Pos(-200, 0)))
  @@ (<<"1", ".", "0", "0">> :> OkQ(One))
  @@ (<<"3", ".", "2", "0">> :> OkQ(Pos(167, 807190511)))
  @@ (<<"2", "5", "0">> :> OkQ(Pos(796, 578428466)))
  @@ (<<"9", "9", "9">> :> OkQ(Pos(996, 434086779)))
  @@ (<<"1", "0", "0", "0", "0", "0", "0">> :> OkQ(Pos(1993, 156856933)))

ParseHashrate(input) ==
  LET trimmed == TrimSpace(input)
      match == hashrateStringPattern(trimmed)
      magnitudeStr == SelectSeq(match.g1, LAMBDA ch : ch \notin {"_", ","})
      value == ParseFloat64Table[magnitudeStr]
      resolved == resolveHashrateUnit(TrimSpace(match.g2))
  IN IF trimmed = <<>> THEN ErrQ
     ELSE IF ~match.ok THEN ErrQ
     ELSE IF value.out = "err" THEN ErrQ
     ELSE IF ~isFinite(value.val) THEN ErrQ
     ELSE IF IsNeg(value.val) THEN ErrQ
     ELSE IF resolved.out = "err" THEN ErrQ
     ELSE OkQ(Mul(value.val, Pow1000(resolved.exponent)))

------------------------------------------------------------------------------
(* HumaniseHashrate                                                         *)

\* math.Nextafter(v, 0) for a positive v: the largest float64 below v.  It
\* lies in the grid cell of v unless v is the bottom of its cell, so the
\* grid cannot tell the two apart and it is kept as v with the kind "under".
Nextafter(v) == [k |-> "under", c |-> v.c, n |-> v.n]

\* a >= b for two finite positive float64 values.
AtLeast(a, b) == ~LgLess(a, b) /\ ~(a.k = "under" /\ a.c = b.c /\ a.n = b.n)

HumanHashrate(value, unit, display, exponent) ==
  [Value |-> value, Unit |-> unit, Display |-> display, Exponent |-> exponent]

\* precision: <<>> is the nil pointer, <<p>> points to p.
humanHashrateOptions(precision) == [precision |-> precision]

\* A HumanHashrateOption, kept as its constructor's name and argument.
NilHumanHashrateOption == [opt |-> "nil", precision |-> 0]
WithHumanHashratePrecision(precision) ==
  [opt |-> "WithHumanHashratePrecision",
   precision |-> IF precision < 0 THEN 0 ELSE precision]

\* for _, opt := range opts { if opt != nil { opt(&cfg) } }
RECURSIVE ApplyHumanHashrateOptions(_, _)
ApplyHumanHashrateOptions(cfg, opts) ==
  IF opts = <<>> THEN cfg
  ELSE IF Head(opts).opt = "nil"
  THEN ApplyHumanHashrateOptions(cfg, Tail(opts))
  ELSE ApplyHumanHashrateOptions(
         humanHashrateOptions(<<Head(opts).precision>>), Tail(opts))

\* math.Floor(math.Log10(hashrate) / 3) for a finite hashrate > 0, counted
\* up to limit, and 0 for a hashrate below 1000.  math.Log10 of the float64
\* values just under a power of 1000 is rounded to the multiple of 3
\* (math.Log10(math.Nextafter(1000, 0)) = 3), so they count as the power.
FloorLog1000(hashrate, limit) ==
  Cardinality({k \in 1..limit : ~LgLess(hashrate, Pow1000(k))})

\* fmt.Sprintf("%.*f %s", precision, scaled, unit): the digits are not
\* computed, the text is kept as the three arguments.
Sprintf(precision, scaled, unit) == <<precision, scaled, unit>>

\* The digits of "%.*f" for the scaled values of the sampled hashrates at
\* the precision that HumaniseHashrate picks for them: 999.99999999 and the
\* float64 just under 1000 print as 1000, the one just under 1 as 1.00.
FormatFloatTable ==
  (<<0, Pos(796, 578428466)>> :> <<"2", "5", "0">>)
  @@ (<<0, Pos(996, 434086779)>> :> <<"9", "9", "9">>)
  @@ (<<0, Pos(996, 578428465)>> :> <<"1", "0", "0", "0">>)
  @@ (<<0, Nextafter(Pos(996, 578428466))>> :> <<"1", "0", "0", "0">>)
  @@ (<<0, Pos(996, 578428466)>> :> <<"1", "0", "0", "0">>)
  @@ (<<0, Pos(1993, 156856933)>> :> <<"1", "0", "0", "0", "0", "0", "0">>)
  @@ (<<1, Pos(364, 385618977)>> :> <<"1", "2", ".", "5">>)
  @@ (<<2, Pos(-200, 0)>> :> <<"0", ".", "2", "5">>)
  @@ (<<2, One>> :> <<"1", ".", "0", "0">>)
  @@ (<<2, Nextafter(One)>> :> <<"1", ".", "0", "0">>)
  @@ (<<2, Pos(167, 807190511)>> :> <<"3", ".", "2", "0">>)

\* The text of a Display: the digits, a space and the unit.
DisplayText(display) ==
  IF Len(display) = 3 /\ display[1] \in Nat
  THEN FormatFloatTable[<<display[1], display[2]>>] \o <<" ">> \o display[3]
  ELSE display

HumaniseHashrate(hashrate, opts) ==
  LET cfg == ApplyHumanHashrateOptions(humanHashrateOptions(<<>>), opts)
      \* an index of len(hashrateUnits) or more is clamped to the last unit
      floor == FloorLog1000(hashrate, Len(hashrateUnits))
      index == IF floor >= Len(hashrateUnits) THEN Len(hashrateUnits) - 1
               ELSE floor
      unit == hashrateUnits[index + 1]
      \* the quotient of the float64 under 1000^k and 1000^k is the float64
      \* under 1
      scaled == IF hashrate.k = "under"
                THEN Nextafter(Div(Pos(hashrate.c, hashrate.n),
                                   Pow1000(unit.exponent)))
                ELSE Div(hashrate, Pow1000(unit.exponent))
      value == IF ~isFinite(scaled) THEN hashrate ELSE scaled
      precision == IF cfg.precision # <<>> THEN cfg.precision[1]
                   ELSE IF AtLeast(value, Pos(664, 385618977)) THEN 0
                   ELSE IF AtLeast(value, Pos(332, 192809488)) THEN 1
                   ELSE 2
  IN IF ~isFinite(hashrate) \/ LeqZero(hashrate)
     THEN HumanHashrate(Zero, hashrateUnits[1].unit,
                        <<"0", " ", "H", "/", "s">>, 0)
     ELSE HumanHashrate(value, unit.unit,
                        Sprintf(precision, value, unit.unit), unit.exponent)

------------------------------------------------------------------------------
(* Probabilities, expected hashes and required hashrate                     *)

ProbabilityFromZBits(zbits) ==
  IF ~isFinite(zbits) THEN ErrQ ELSE OkQ(Exp2(NegBits(zbits)))

ProbabilityPerHash(note) ==
  With(EnsureNote(note), LAMBDA resolved :
    IF resolved.out = "err" THEN ErrQ
    ELSE OkQ(Exp2(NegBits(resolved.note.ZBits))))

difficultyFromNote(note) ==
  With(EnsureNote(note), LAMBDA resolved :
    IF resolved.out = "err" THEN ErrQ ELSE OkQ(Exp2(resolved.note.ZBits)))

zBitsFromDifficulty(difficulty) ==
  IF ~isFinite(difficulty) \/ LeqZero(difficulty) THEN ErrBits
  ELSE OkBits(Log2(difficulty))

expectedHashesValueFromZBits(zbits) ==
  With(ProbabilityFromZBits(zbits), LAMBDA p :
    IF p.out = "err" THEN ErrQ ELSE OkQ(Div(One, p.val)))

\* HashesMeasurement{Value: value}
ExpectedHashesForZBits(zbits) == expectedHashesValueFromZBits(zbits)

ExpectedHashesForNote(note) ==
  With(EnsureNote(note), LAMBDA resolved :
    IF resolved.out = "err" THEN ErrQ
    ELSE ExpectedHashesForZBits(resolved.note.ZBits))

\* A HashrateOption is the closure a With... constructor returned, kept as
\* the constructor's name and argument; NilOption is the nil function value.
HashrateOption(name, multiplier, id, confidence) ==
  [opt |-> name, multiplier |-> multiplier, id |-> id,
   confidence |-> confidence]

NilOption == HashrateOption("nil", Zero, "", Fin(0, 0))
WithMultiplier(multiplier) ==
  HashrateOption("WithMultiplier", multiplier, "", Fin(0, 0))
WithReliability(id) == HashrateOption("WithReliability", Zero, id, Fin(0, 0))
WithConfidence(confidence) ==
  HashrateOption("WithConfidence", Zero, "", confidence)

\* opt(&cfg) for a non-nil opt: the body of the closure.
CallHashrateOption(opt, cfg) ==
  CASE opt.opt = "WithMultiplier" -> [cfg EXCEPT !.multiplier = opt.multiplier]
    [] opt.opt = "WithReliability" ->
         IF opt.id \in DOMAIN reliabilityLevels
         THEN [cfg EXCEPT !.multiplier = reliabilityLevels[opt.id].Multiplier]
         ELSE cfg
    [] opt.opt = "WithConfidence" ->
         IF ConfidenceLeqZero(opt.confidence) \/ ConfidenceGeqOne(opt.confidence)
         THEN cfg
         ELSE [cfg EXCEPT !.multiplier = NegLogOneMinus(opt.confidence)]

\* for _, opt := range opts { opt(&cfg) }, written with the nil test
\* (skipNil) or without it: calling a nil function value panics.
RECURSIVE ApplyHashrateOptions(_, _, _)
ApplyHashrateOptions(cfg, opts, skipNil) ==
  IF opts = <<>> THEN [panic |-> FALSE, cfg |-> cfg]
  ELSE IF Head(opts).opt = "nil"
  THEN IF skipNil THEN ApplyHashrateOptions(cfg, Tail(opts), skipNil)
       ELSE [panic |-> TRUE, cfg |-> cfg]
  ELSE ApplyHashrateOptions(CallHashrateOption(Head(opts), cfg), Tail(opts),
                            skipNil)

hashrateOptions == [multiplier |-> One]

requiredHashrateValue(note, seconds, opts) ==
  IF ~isFinite(seconds) \/ LeqZero(seconds) THEN ErrQ
  ELSE With(ApplyHashrateOptions(hashrateOptions, opts, FALSE), LAMBDA applied :
    IF applied.panic THEN Panic
    ELSE IF LeqZero(applied.cfg.multiplier) THEN ErrQ
    ELSE With(EnsureNote(note), LAMBDA resolved :
      IF resolved.out = "err" THEN ErrQ
      ELSE With(expectedHashesValueFromZBits(resolved.note.ZBits),
                LAMBDA expected :
        IF expected.out = "err" THEN ErrQ
        ELSE OkQ(Div(Mul(expected.val, applied.cfg.multiplier), seconds)))))

\* HashrateMeasurement{Value: value}
RequiredHashrate(note, seconds, opts) ==
  requiredHashrateValue(note, seconds, opts)

RequiredHashrateMean(note, seconds) == RequiredHashrate(note, seconds, <<>>)

RequiredHashrateQuantile(note, seconds, confidence) ==
  IF ConfidenceLeqZero(confidence) \/ ConfidenceGeqOne(confidence) THEN ErrQ
  ELSE RequiredHashrate(note, seconds,
                        <<WithMultiplier(NegLogOneMinus(confidence))>>)

HashrateRange(lower, upper) == [Min |-> lower, Max |-> upper]

HashrateRangeForNote(note, seconds, opts) ==
  LET zero == [out |-> "err", val |-> HashrateRange(Zero, Zero)]
  IN IF ~isFinite(seconds) \/ LeqZero(seconds) THEN zero
     ELSE With(ApplyHashrateOptions(hashrateOptions, opts, TRUE).cfg,
               LAMBDA cfg :
       IF LeqZero(cfg.multiplier) THEN zero
       ELSE With(EnsureNote(note), LAMBDA resolved :
         IF resolved.out = "err" THEN zero
         ELSE With(expectedHashesValueFromZBits(resolved.note.ZBits),
                   LAMBDA lowerExpected :
           IF lowerExpected.out = "err" THEN zero
           ELSE With(expectedHashesValueFromZBits(
                       AddCent(resolved.note.ZBits)),
                     LAMBDA upperExpected :
             IF upperExpected.out = "err" THEN zero
             ELSE With(Div(Mul(lowerExpected.val, cfg.multiplier), seconds),
                       LAMBDA lower :
               With(Div(Mul(upperExpected.val, cfg.multiplier), seconds),
                    LAMBDA upper :
                 [out |-> "ok",
                  val |-> HashrateRange(lower, IF QLess(upper, lower)
                                               THEN lower ELSE upper)]))))))

MaxZBitsForHashrate(hashrate, seconds, multiplier) ==
  IF ~isFinite(hashrate) \/ LeqZero(hashrate) THEN ErrBits
  ELSE IF ~isFinite(seconds) \/ LeqZero(seconds) THEN ErrBits
  ELSE IF ~isFinite(multiplier) \/ LeqZero(multiplier) THEN ErrBits
  ELSE OkBits(Log2(Div(Mul(hashrate, seconds), multiplier)))

NoteFromHashrate(hashrate, seconds, opts) ==
  With(NormalizeHashrateValue(hashrate), LAMBDA numeric :
    IF numeric.out = "err" THEN Err
    ELSE With(ApplyHashrateOptions(hashrateOptions, opts, FALSE),
              LAMBDA applied :
      IF applied.panic THEN [out |-> "panic", note |-> <<>>]
      ELSE With(MaxZBitsForHashrate(numeric.val, seconds,
                                    applied.cfg.multiplier),
                LAMBDA zbits :
        IF zbits.out = "err" THEN Err ELSE NoteFromZBits(zbits.val))))

------------------------------------------------------------------------------
(* EstimateNote and PlanSharenoteFromHashrate.  ProbabilityDisplay of a     *)
(* BillEstimate and the HumanHashrate fields of a SharenotePlan are left    *)
(* out of the records.                                                      *)

PrimaryModeMean == "mean"
PrimaryModeQuantile == "quantile"

\* quantile: <<>> is the nil pointer, <<q>> points to q.
estimateOptions(multiplier, quantile, primaryMode, probabilityPrecision) ==
  [multiplier |-> multiplier, quantile |-> quantile,
   primaryMode |-> primaryMode, probabilityPrecision |-> probabilityPrecision]

defaultEstimateOptions == estimateOptions(One, <<>>, "", 8)

\* An EstimateOption, kept as its constructor's name and argument.
EstimateOption(name, multiplier, id, confidence, mode, precision) ==
  [opt |-> name, multiplier |-> multiplier, id |-> id,
   confidence |-> confidence, mode |-> mode, precision |-> precision]

NilEstimateOption == EstimateOption("nil", Zero, "", Fin(0, 0), "", 0)
WithEstimateMultiplier(multiplier) ==
  EstimateOption("WithEstimateMultiplier", multiplier, "", Fin(0, 0), "", 0)
WithEstimateReliability(id) ==
  EstimateOption("WithEstimateReliability", Zero, id, Fin(0, 0), "", 0)
WithEstimateConfidence(confidence) ==
  EstimateOption("WithEstimateConfidence", Zero, "", confidence, "", 0)
WithEstimatePrimaryMode(mode) ==
  EstimateOption("WithEstimatePrimaryMode", Zero, "", Fin(0, 0), mode, 0)
WithEstimateProbabilityPrecision(precision) ==
  EstimateOption("WithEstimateProbabilityPrecision", Zero, "", Fin(0, 0), "",
                 precision)

\* opt(&cfg) for a non-nil opt: the body of the closure.
CallEstimateOption(opt, cfg) ==
  CASE opt.opt = "WithEstimateMultiplier" ->
         [cfg EXCEPT !.multiplier = opt.multiplier, !.quantile = <<>>]
    [] opt.opt = "WithEstimateReliability" ->
         IF opt.id \in DOMAIN reliabilityLevels
         THEN [cfg EXCEPT !.multiplier = reliabilityLevels[opt.id].Multiplier,
                          !.quantile = reliabilityLevels[opt.id].Confidence]
         ELSE cfg
    [] opt.opt = "WithEstimateConfidence" ->
         IF ConfidenceLeqZero(opt.confidence) \/ ConfidenceGeqOne(opt.confidence)
         THEN cfg
         ELSE [cfg EXCEPT !.multiplier = NegLogOneMinus(opt.confidence),
                          !.quantile = <<opt.confidence>>]
    [] opt.opt = "WithEstimatePrimaryMode" ->
         IF opt.mode \in {PrimaryModeMean, PrimaryModeQuantile}
         THEN [cfg EXCEPT !.primaryMode = opt.mode]
         ELSE cfg
    [] opt.opt = "WithEstimateProbabilityPrecision" ->
         [cfg EXCEPT !.probabilityPrecision =
                       IF opt.precision < 0 THEN 0 ELSE opt.precision]

\* for _, opt := range opts { opt(&cfg) }: no nil test.
RECURSIVE ApplyEstimateOptions(_, _)
ApplyEstimateOptions(cfg, opts) ==
  IF opts = <<>> THEN [panic |-> FALSE, cfg |-> cfg]
  ELSE IF Head(opts).opt = "nil" THEN [panic |-> TRUE, cfg |-> cfg]
  ELSE ApplyEstimateOptions(CallEstimateOption(Head(opts), cfg), Tail(opts))

BillEstimate(note, label, zbits, seconds, probability, expected, mean, quantileRate, primary, human, multiplier, quantile, primaryMode) ==
  [Sharenote |-> note, Label |-> label, ZBits |-> zbits,
   SecondsTarget |-> seconds, ProbabilityPerHash |-> probability,
   ExpectedHashes |-> expected, RequiredHashrateMean |-> mean,
   RequiredHashrateQuantile |-> quantileRate,
   RequiredHashratePrimary |-> primary, RequiredHashrateHuman |-> human,
   Multiplier |-> multiplier,
   Quantile |-> quantile, PrimaryMode |-> primaryMode]

ZeroBillEstimate ==
  BillEstimate(ZeroSharenote, <<>>, Fin(0, 0), Zero, Zero, Zero, Zero, Zero,
               Zero, HumanHashrate(Zero, <<>>, <<>>, 0), Zero, <<>>, "")

\* The confidence handed back: a cell of its own with the value read through
\* cfg.quantile (val := *cfg.quantile; quantileCopy = &val).
quantileCopy(cfg) ==
  IF cfg.quantile # <<>> THEN <<Deref(cfg.quantile)>> ELSE <<>>

\* The primary mode inferred from the quantile alone.
primaryModeOf_InferredOnly(cfg) ==
  IF cfg.quantile # <<>> THEN PrimaryModeQuantile ELSE PrimaryModeMean

\* The primary mode: the explicit one, or inferred from the quantile.
primaryModeOf(cfg) ==
  LET inferred == IF cfg.primaryMode = ""
                  THEN IF cfg.quantile # <<>> THEN PrimaryModeQuantile
                       ELSE PrimaryModeMean
                  ELSE cfg.primaryMode
  IN IF inferred = PrimaryModeQuantile /\ cfg.quantile = <<>>
     THEN PrimaryModeMean ELSE inferred

\* EstimateNote once the note is resolved and the options are applied.
estimateResolved(note, seconds, cfg) ==
  LET zero == [out |-> "err", val |-> ZeroBillEstimate]
      resolved == [type |-> "Sharenote", val |-> note]
  IN IF LeqZero(cfg.multiplier) THEN zero
     ELSE With(ProbabilityPerHash(resolved), LAMBDA probability :
       IF probability.out = "err" THEN zero
       ELSE With(ExpectedHashesForNote(resolved), LAMBDA expectation :
         IF expectation.out = "err" THEN zero
         ELSE With(RequiredHashrateMean(resolved, seconds), LAMBDA meanRate :
           IF meanRate.out = "err" THEN zero
           ELSE With(RequiredHashrate(resolved, seconds,
                                      <<WithMultiplier(cfg.multiplier)>>),
                     LAMBDA quantileRate :
             IF quantileRate.out = "err" THEN zero
             ELSE With(primaryModeOf(cfg), LAMBDA primaryMode :
               With(IF primaryMode = PrimaryModeQuantile THEN quantileRate.val
                    ELSE meanRate.val, LAMBDA primary :
               [out |-> "ok",
                val |-> BillEstimate(
                  note, Label(note), note.ZBits, seconds, probability.val,
                  expectation.val, meanRate.val, quantileRate.val,
                  primary, HumaniseHashrate(primary, <<>>),
                  cfg.multiplier, quantileCopy(cfg), primaryMode)]))))))

EstimateNote(note, seconds, opts) ==
  IF ~isFinite(seconds) \/ LeqZero(seconds)
  THEN [out |-> "err", val |-> ZeroBillEstimate]
  ELSE With(EnsureNote(note), LAMBDA resolved :
         IF resolved.out = "err" THEN [out |-> "err", val |-> ZeroBillEstimate]
         ELSE With(ApplyEstimateOptions(defaultEstimateOptions, opts),
                   LAMBDA applied :
                     IF applied.panic THEN Panic
                     ELSE estimateResolved(resolved.note, seconds, applied.cfg)))

\* A PlanOption, kept as its constructor's name and arguments.
PlanOption(name, hashrateOpts, estimateOpts, id, confidence) ==
  [opt |-> name, hashrateOpts |-> hashrateOpts, estimateOpts |-> estimateOpts,
   id |-> id, confidence |-> confidence]

NilPlanOption == PlanOption("nil", <<>>, <<>>, "", Fin(0, 0))
WithPlanHashrateOptions(opts) ==
  PlanOption("WithPlanHashrateOptions", opts, <<>>, "", Fin(0, 0))
WithPlanEstimateOptions(opts) ==
  PlanOption("WithPlanEstimateOptions", <<>>, opts, "", Fin(0, 0))
WithPlanReliability(id) ==
  PlanOption("WithPlanReliability", <<>>, <<>>, id, Fin(0, 0))
WithPlanConfidence(confidence) ==
  PlanOption("WithPlanConfidence", <<>>, <<>>, "", confidence)

planOptions == [hashrateOpts |-> <<>>, estimateOpts |-> <<>>]

\* Mutant: the reliability of a plan reaches the hashrate options only.
CallPlanOption_HashrateOnly(opt, cfg) ==
  CASE opt.opt = "WithPlanHashrateOptions" ->
         [cfg EXCEPT !.hashrateOpts = @ \o opt.hashrateOpts]
    [] opt.opt = "WithPlanEstimateOptions" ->
         [cfg EXCEPT !.estimateOpts = @ \o opt.estimateOpts]
    [] opt.opt = "WithPlanReliability" ->
         [cfg EXCEPT !.hashrateOpts = Append(@, WithReliability(opt.id))]
    [] opt.opt = "WithPlanConfidence" ->
         [cfg EXCEPT
            !.hashrateOpts = Append(@, WithConfidence(opt.confidence))]

\* opt(&cfg) for a non-nil opt: the body of the closure.
CallPlanOption(opt, cfg) ==
  CASE opt.opt = "WithPlanHashrateOptions" ->
         [cfg EXCEPT !.hashrateOpts = @ \o opt.hashrateOpts]
    [] opt.opt = "WithPlanEstimateOptions" ->
         [cfg EXCEPT !.estimateOpts = @ \o opt.estimateOpts]
    [] opt.opt = "WithPlanReliability" ->
         [cfg EXCEPT !.hashrateOpts = Append(@, WithReliability(opt.id)),
                     !.estimateOpts = Append(@, WithEstimateReliability(opt.id))]
    [] opt.opt = "WithPlanConfidence" ->
         [cfg EXCEPT
            !.hashrateOpts = Append(@, WithConfidence(opt.confidence)),
            !.estimateOpts = Append(@, WithEstimateConfidence(opt.confidence))]

\* for _, opt := range opts { opt(&cfg) }: no nil test.
RECURSIVE ApplyPlanOptions(_, _)
ApplyPlanOptions(cfg, opts) ==
  IF opts = <<>> THEN [panic |-> FALSE, cfg |-> cfg]
  ELSE IF Head(opts).opt = "nil" THEN [panic |-> TRUE, cfg |-> cfg]
  ELSE ApplyPlanOptions(CallPlanOption(Head(opts), cfg), Tail(opts))

SharenotePlan(note, bill, seconds, numeric) ==
  [Sharenote |-> note, Bill |-> bill, SecondsTarget |-> seconds,
   InputHashrateHPS |-> numeric]

ZeroSharenotePlan == SharenotePlan(ZeroSharenote, ZeroBillEstimate, Zero, Zero)

PlanSharenoteFromHashrate(hashrate, seconds, opts) ==
  LET zero == [out |-> "err", val |-> ZeroSharenotePlan]
      numeric == NormalizeHashrateValue(hashrate)
  IN IF ~isFinite(seconds) \/ LeqZero(seconds) THEN zero
     ELSE IF numeric.out = "err" THEN zero
     ELSE IF LeqZero(numeric.val) THEN zero
     ELSE With(ApplyPlanOptions(planOptions, opts), LAMBDA applied :
       IF applied.panic THEN Panic
       ELSE With(NoteFromHashrate(hashrate, seconds, applied.cfg.hashrateOpts),
                 LAMBDA note :
         IF note.out = "panic" THEN Panic
         ELSE IF note.out = "err" THEN zero
         ELSE With(EstimateNote([type |-> "Sharenote", val |-> note.note],
                                seconds, applied.cfg.estimateOpts),
                   LAMBDA bill :
           IF bill.out = "panic" THEN Panic
           ELSE IF bill.out = "err" THEN zero
           ELSE [out |-> "ok",
                 val |-> SharenotePlan(note.note, bill.val, seconds,
                                       numeric.val)])))

------------------------------------------------------------------------------
(* Compact difficulty (nBits)                                               *)

HexChars ==
  <<"0", "1", "2", "3", "4", "5", "6", "7",
    "8", "9", "a", "b", "c", "d", "e", "f">>

IsHex(s) ==
  \A i \in 1..Len(s) : \E j \in 1..16 : HexChars[j] = LowerOf(s[i])

HexVal(ch) == (CHOOSE j \in 1..16 : HexChars[j] = LowerOf(ch)) - 1

\* strconv.ParseUint(s, 16, 32) of hex digits.
RECURSIVE ParseHex(_)
ParseHex(s) ==
  IF s = <<>> THEN 0
  ELSE ParseHex(SubSeq(s, 1, Len(s) - 1)) * 16 + HexVal(s[Len(s)])

\* math.Log2(float64(mantissa)) for the sampled mantissas, in cents and
\* nano-cents.
Log2MantissaTable ==
  (1 :> <<0, 0>>) @@ (32768 :> <<1500, 0>>) @@ (32995 :> <<1500, 995979730>>)
  @@ (43008 :> <<1539, 231742277>>) @@ (43237 :> <<1539, 997880467>>)
  @@ (46336 :> <<1549, 984588708>>) @@ (46340 :> <<1549, 997042375>>)
  @@ (59648 :> <<1586, 418614465>>) @@ (59888 :> <<1586, 997933289>>)
  @@ (60160 :> <<1587, 651694656>>) @@ (60305 :> <<1587, 999000316>>)
  @@ (65024 :> <<1598, 868468677>>) @@ (65083 :> <<1598, 999313310>>)
  @@ (65535 :> <<1599, 997798605>>) @@ (65536 :> <<1600, 0>>)
  @@ (65792 :> <<1600, 562454919>>) @@ (65991 :> <<1600, 998165946>>)
  @@ (86272 :> <<1639, 660478118>>) @@ (86475 :> <<1639, 999548814>>)
  @@ (92672 :> <<1649, 984588708>>) @@ (92681 :> <<1649, 998599007>>)
  @@ (119552 :> <<1686, 727873970>>) @@ (119777 :> <<1686, 999137779>>)
  @@ (120576 :> <<1687, 958324961>>) @@ (120610 :> <<1687, 999000316>>)
  @@ (130048 :> <<1698, 868468677>>) @@ (130166 :> <<1698, 999313310>>)
  @@ (131072 :> <<1700, 0>>) @@ (2111488 :> <<2100, 982861736>>)
  @@ (2767104 :> <<2139, 994543714>>) @@ (2965760 :> <<2149, 997042375>>)
  @@ (3832832 :> <<2186, 997933289>>) @@ (3859456 :> <<2187, 996607966>>)
  @@ (4165120 :> <<2198, 992663055>>) @@ (4194304 :> <<2200, 0>>)
  @@ (4223232 :> <<2200, 991607198>>) @@ (4223477 :> <<2200, 999976381>>)
  @@ (5534208 :> <<2239, 994543714>>) @@ (5534417 :> <<2239, 999991966>>)
  @@ (5778197 :> <<2246, 218796084>>) @@ (5931520 :> <<2249, 997042375>>)
  @@ (5931641 :> <<2249, 999985369>>) @@ (7665664 :> <<2286, 997933289>>)
  @@ (7665773 :> <<2286, 999984679>>) @@ (7678809 :> <<2287, 245113247>>)
  @@ (7718912 :> <<2287, 996607966>>) @@ (7719093 :> <<2287, 999990888>>)
  @@ (8330496 :> <<2298, 997096592>>) @@ (8330663 :> <<2298, 999988709>>)
  @@ (8388607 :> <<2299, 999982801>>)

\* 256 - x of a finite bit count.
From256(v) ==
  LET m == NegBits(v) IN Fin(m.c + 256 * centZUnitsPerZ, m.n)

NBitsToSharenote(hex) ==
  LET cleaned == TrimSpace(TrimPrefix(ToLower(hex), <<"0", "x">>))
      \* value >> 24 and value & 0xFFFFFF
      exponent == ParseHex(SubSeq(cleaned, 1, 2))
      mantissa == ParseHex(SubSeq(cleaned, 3, 8))
      log2Mantissa == Log2MantissaTable[mantissa]
      \* exponent-3 is unsigned: below 3 it wraps to nearly 2^64
      log2Target ==
        IF exponent < 3 THEN Huge
        ELSE Fin(log2Mantissa[1] + 8 * (exponent - 3) * centZUnitsPerZ,
                 log2Mantissa[2])
      zbits == IF log2Target.k = "huge" THEN NHuge ELSE From256(log2Target)
  IN IF Len(cleaned) # 8 THEN Err
     ELSE IF ~IsHex(cleaned) THEN Err
     ELSE IF mantissa = 0 THEN Err
     ELSE NoteFromZBits(zbits)

------------------------------------------------------------------------------
(* Targets and compact nBits                                                *)

\* A big.Int that is not negative: (hi * Limb + lo) * 2^exp, with lo below
\* Limb.  Above 48 bits hi has exactly 24 bits; otherwise exp is 0.
Limb == 2^24
BigInt(hi, lo, exp) == [hi |-> hi, lo |-> lo, exp |-> exp]

\* (nil, err) and ("", err)
ErrNil == [out |-> "err", val |-> <<>>]

RECURSIVE BitLen(_)
BitLen(v) == IF v = 0 THEN 0 ELSE 1 + BitLen(v \div 2)

\* big.Int.BitLen, Sign and Cmp
BigBitLen(x) ==
  IF x.hi = 0 THEN BitLen(x.lo) ELSE BitLen(x.hi) + 24 + x.exp

BigSign(x) == IF x.hi = 0 /\ x.lo = 0 THEN 0 ELSE 1

BigCmp(x, y) ==
  LET key(v) == <<BigBitLen(v), v.hi, v.lo>>
      less(a, b) == \/ a[1] < b[1]
                    \/ a[1] = b[1] /\ a[2] < b[2]
                    \/ a[1] = b[1] /\ a[2] = b[2] /\ a[3] < b[3]
  IN IF less(key(x), key(y)) THEN -1
     ELSE IF less(key(y), key(x)) THEN 1 ELSE 0

\* (hi * Limb + lo) >> r
Rsh(hi, lo, r) ==
  IF r >= 24 THEN <<0, hi \div 2^(r - 24)>>
  ELSE <<hi \div 2^r, (hi % 2^r) * 2^(24 - r) + lo \div 2^r>>

precisionBits == 48

\* uint64(math.Round(math.Exp2(-fractional) * 2^48)) as <<hi, lo>>, for the
\* fractions of a bit, in cents and nano-cents, that the sampled notes have.
\* The entries are those of fractional = cents * 0.01; the rounding of
\* Z + cents * 0.01 to a float64 moves the last three bits of lo when Z > 0.
ScaleFactorTable ==
  (<<0, 0>> :> <<16777216, 0>>) @@ (<<1, 0>> :> <<16661327, 5099035>>)
  @@ (<<2, 0>> :> <<16546239, 1837932>>)
  @@ (<<3, 0>> :> <<16431945, 14888104>>)
  @@ (<<4, 0>> :> <<16318442, 2452905>>)
  @@ (<<5, 0>> :> <<16205722, 7258145>>)
  @@ (<<6, 0>> :> <<16093781, 5552751>>)
  @@ (<<7, 0>> :> <<15982613, 7767695>>)
  @@ (<<8, 0>> :> <<15872213, 8180017>>)
  @@ (<<9, 0>> :> <<15762576, 1685729>>)
  @@ (<<10, 0>> :> <<15653696, 572761>>)
  @@ (<<11, 0>> :> <<15545568, 962276>>)
  @@ (<<12, 0>> :> <<15438186, 16358894>>)
  @@ (<<13, 0>> :> <<15331547, 10537634>>)
  @@ (<<14, 0>> :> <<15225644, 14980268>>)
  @@ (<<15, 0>> :> <<15120473, 11430683>>)
  @@ (<<16, 0>> :> <<15016028, 15776856>>)
  @@ (<<17, 0>> :> <<14912305, 10937917>>)
  @@ (<<18, 0>> :> <<14809298, 13968970>>)
  @@ (<<19, 0>> :> <<14707003, 8948211>>)
  @@ (<<20, 0>> :> <<14605414, 14081801>>)
  @@ (<<21, 0>> :> <<14504527, 14591044>>)
  @@ (<<22, 0>> :> <<14404337, 13040099>>)
  @@ (<<23, 0>> :> <<14304839, 12554854>>)
  @@ (<<24, 0>> :> <<14206029, 41835>>)
  @@ (<<25, 0>> :> <<14107900, 13293213>>)
  @@ (<<26, 0>> :> <<14010450, 6765250>>)
  @@ (<<27, 0>> :> <<13913673, 2569444>>)
  @@ (<<28, 0>> :> <<13817564, 6582672>>)
  @@ (<<29, 0>> :> <<13722119, 8443445>>)
  @@ (<<30, 0>> :> <<13627333, 15102618>>)
  @@ (<<31, 0>> :> <<13533203, 488043>>)
  @@ (<<32, 0>> :> <<13439722, 6164195>>)
  @@ (<<33, 0>> :> <<13346887, 7110801>>)
  @@ (<<34, 0>> :> <<13254693, 12382512>>)
  @@ (<<35, 0>> :> <<13163136, 14773663>>)
  @@ (<<36, 0>> :> <<13072212, 7591915>>)
  @@ (<<37, 0>> :> <<12981916, 1431929>>)
  @@ (<<38, 0>> :> <<12892243, 7394626>>)
  @@ (<<39, 0>> :> <<12803190, 3529259>>)
  @@ (<<40, 0>> :> <<12714752, 1938803>>)
  @@ (<<41, 0>> :> <<12626924, 15222076>>)
  @@ (<<42, 0>> :> <<12539704, 6138666>>)
  @@ (<<43, 0>> :> <<12453086, 5046040>>)
  @@ (<<44, 0>> :> <<12367066, 9232869>>)
  @@ (<<45, 0>> :> <<12281640, 16470110>>)
  @@ (<<46, 0>> :> <<12196805, 8230454>>)
  @@ (<<47, 0>> :> <<12112556, 16669>>)
  @@ (<<48, 0>> :> <<12028888, 7803881>>)
  @@ (<<49, 0>> :> <<11945798, 14481877>>)
  @@ (<<50, 0>> :> <<11863283, 3406302>>)
  @@ (<<51, 0>> :> <<11781337, 8727084>>)
  @@ (<<52, 0>> :> <<11699957, 14721946>>)
  @@ (<<53, 0>> :> <<11619140, 6124876>>)
  @@ (<<53, 781200000>> :> <<11556394, 5261594>>)
  @@ (<<54, 0>> :> <<11538881, 1677413>>)
  @@ (<<55, 0>> :> <<11459176, 3793865>>)
  @@ (<<56, 0>> :> <<11380021, 15335418>>)
  @@ (<<57, 0>> :> <<11301414, 6052618>>)
  @@ (<<58, 0>> :> <<11223349, 13245599>>)
  @@ (<<59, 0>> :> <<11145824, 7543313>>)
  @@ (<<60, 0>> :> <<11068834, 10341019>>)
  @@ (<<61, 0>> :> <<10992376, 9911199>>)
  @@ (<<62, 0>> :> <<10916446, 11732224>>)
  @@ (<<63, 0>> :> <<10841041, 4930963>>)
  @@ (<<64, 0>> :> <<10766156, 12611490>>)
  @@ (<<65, 0>> :> <<10691789, 7966080>>)
  @@ (<<66, 0>> :> <<10617935, 14935612>>)
  @@ (<<67, 0>> :> <<10544592, 7543385>>)
  @@ (<<68, 0>> :> <<10471755, 10555561>>)
  @@ (<<69, 0>> :> <<10399421, 15592238>>)
  @@ (<<70, 0>> :> <<10327587, 14679065>>)
  @@ (<<71, 0>> :> <<10256250, 244443>>)
  @@ (<<72, 0>> :> <<10185404, 15448383>>)
  @@ (<<73, 0>> :> <<10115049, 3184808>>)
  @@ (<<74, 0>> :> <<10045179, 7405396>>)
  @@ (<<75, 0>> :> <<9975792, 5344697>>)
  @@ (<<76, 0>> :> <<9906884, 8180722>>)
  @@ (<<77, 0>> :> <<9838452, 10700611>>)
  @@ (<<78, 0>> :> <<9770493, 8075176>>)
  @@ (<<79, 0>> :> <<9703003, 12633468>>)
  @@ (<<80, 0>> :> <<9635980, 3528500>>)
  @@ (<<81, 0>> :> <<9569419, 10620709>>)
  @@ (<<82, 0>> :> <<9503318, 13812068>>)
  @@ (<<83, 0>> :> <<9437674, 10152370>>)
  @@ (<<84, 0>> :> <<9372483, 13836669>>)
  @@ (<<85, 0>> :> <<9307743, 5871088>>)
  @@ (<<86, 0>> :> <<9243450, 1179161>>)
  @@ (<<87, 0>> :> <<9179600, 15044892>>)
  @@ (<<88, 0>> :> <<9116192, 12778618>>)
  @@ (<<89, 0>> :> <<9053222, 10377831>>)
  @@ (<<90, 0>> :> <<8990687, 7415859>>)
  @@ (<<91, 0>> :> <<8928584, 3816644>>)
  @@ (<<92, 0>> :> <<8866909, 16629535>>)
  @@ (<<93, 0>> :> <<8805661, 12918019>>)
  @@ (<<94, 0>> :> <<8744836, 10420629>>)
  @@ (<<95, 0>> :> <<8684431, 10439709>>)
  @@ (<<96, 0>> :> <<8624443, 14616272>>)
  @@ (<<97, 0>> :> <<8564870, 8150445>>)
  @@ (<<98, 0>> :> <<8505708, 10130796>>)
  @@ (<<99, 0>> :> <<8446955, 6423160>>)

\* Mutant: the fraction of a bit is dropped.
TargetFor_WholeBitsOnly(note) ==
  With(EnsureNote(note), LAMBDA resolved :
    IF resolved.out = "err" THEN ErrNil
    ELSE LET zbits == resolved.note.ZBits
             baseExponent == 256 - FloorBits(zbits.c)
         IN IF zbits.k # "fin" THEN ErrNil
            ELSE IF baseExponent < 0 THEN ErrNil
            ELSE IF baseExponent < 24 THEN OkQ(BigInt(0, 2^baseExponent, 0))
            ELSE IF baseExponent < precisionBits
            THEN OkQ(BigInt(2^(baseExponent - 24), 0, 0))
            ELSE OkQ(BigInt(Limb \div 2, 0, baseExponent - precisionBits + 1)))

TargetFor(note) ==
  With(EnsureNote(note), LAMBDA resolved :
    IF resolved.out = "err" THEN ErrNil
    ELSE LET zbits == resolved.note.ZBits
             integerBits == FloorBits(zbits.c)
             baseExponent == 256 - integerBits
             fractional == <<zbits.c - integerBits * centZUnitsPerZ, zbits.n>>
             scaleFactor == ScaleFactorTable[fractional]
         IN \* int(NaN) is 0 and uint64(NaN) is 0 on arm64; every other
            \* value that is no int converts to one that makes
            \* baseExponent negative, wrapped or not.
            IF zbits.k = "nan" /\ arch = "arm64" THEN OkQ(BigInt(0, 0, 0))
            ELSE IF zbits.k # "fin" THEN ErrNil
            ELSE IF baseExponent < 0 THEN ErrNil
            ELSE IF baseExponent < precisionBits
            THEN LET r == Rsh(scaleFactor[1], scaleFactor[2],
                              precisionBits - baseExponent)
                 IN OkQ(BigInt(r[1], r[2], 0))
            ELSE IF scaleFactor[1] = Limb
            THEN OkQ(BigInt(Limb \div 2, 0, baseExponent - precisionBits + 1))
            ELSE OkQ(BigInt(scaleFactor[1], scaleFactor[2],
                            baseExponent - precisionBits)))

\* A compact value, exponent << 24 | mantissa, kept as its two fields.
Compact(exponent, mantissa) == [exponent |-> exponent, mantissa |-> mantissa]

targetToCompact_NoCarry(target) ==
  IF target = <<>> THEN [out |-> "err", val |-> Compact(0, 0)]
  ELSE IF BigSign(target) <= 0 THEN [out |-> "err", val |-> Compact(0, 0)]
  ELSE LET exponent == (BigBitLen(target) + 7) \div 8
           mantissa ==
             IF exponent <= 3 THEN target.lo * 2^(8 * (3 - exponent))
             ELSE Rsh(target.hi, target.lo,
                      8 * (exponent - 3) - target.exp)[2]
       IN IF exponent > 255
          THEN [out |-> "err", val |-> Compact(0, 0)]
          ELSE OkQ(Compact(exponent, mantissa))

targetToCompact(target) ==
  IF target = <<>> THEN [out |-> "err", val |-> Compact(0, 0)]
  ELSE IF BigSign(target) <= 0 THEN [out |-> "err", val |-> Compact(0, 0)]
  ELSE LET exponent == (BigBitLen(target) + 7) \div 8
           mantissa ==
             IF exponent <= 3 THEN target.lo * 2^(8 * (3 - exponent))
             ELSE Rsh(target.hi, target.lo,
                      8 * (exponent - 3) - target.exp)[2]
           carry == mantissa >= Limb \div 2
       IN IF exponent + (IF carry THEN 1 ELSE 0) > 255
          THEN [out |-> "err", val |-> Compact(0, 0)]
          ELSE IF carry THEN OkQ(Compact(exponent + 1, mantissa \div 256))
          ELSE OkQ(Compact(exponent, mantissa))

\* fmt.Sprintf("%0*x", width, v)
RECURSIVE FormatHex(_, _)
FormatHex(v, width) ==
  IF width = 0 THEN <<>>
  ELSE Append(FormatHex(v \div 16, width - 1), HexChars[(v % 16) + 1])

SharenoteToNBits(note) ==
  With(TargetFor(note), LAMBDA target :
    IF target.out = "err" THEN ErrNil
    ELSE IF BigSign(target.val) <= 0 THEN ErrNil
    ELSE With(targetToCompact(target.val), LAMBDA compact :
      IF compact.out = "err" THEN ErrNil
      ELSE OkQ(FormatHex(compact.val.exponent, 2)
               \o FormatHex(compact.val.mantissa, 6))))

------------------------------------------------------------------------------
(* Note arithmetic                                                          *)

\* The loop of CombineNotesSerial: total += diff, up to the first error.
RECURSIVE SumDifficulties(_, _)
SumDifficulties(notes, total) ==
  IF notes = <<>> THEN OkQ(total)
  ELSE LET diff == difficultyFromNote(Head(notes))
       IN IF diff.out = "err" THEN ErrQ
          ELSE SumDifficulties(Tail(notes), Add(total, diff.val))

CombineNotesSerial(notes) ==
  IF Len(notes) = 0 THEN Err
  ELSE With(SumDifficulties(notes, Zero), LAMBDA total :
    IF total.out = "err" THEN Err
    ELSE IF ~isFinite(total.val) \/ LeqZero(total.val)
    THEN NoteFromZBits(Fin(0, 0))
    ELSE With(zBitsFromDifficulty(total.val), LAMBDA zbits :
      IF zbits.out = "err" THEN Err ELSE NoteFromZBits(zbits.val)))

NoteDifference(minuend, subtrahend) ==
  With(difficultyFromNote(minuend), LAMBDA minDifficulty :
    IF minDifficulty.out = "err" THEN Err
    ELSE With(difficultyFromNote(subtrahend), LAMBDA subDifficulty :
      IF subDifficulty.out = "err" THEN Err
      ELSE With(Sub(minDifficulty.val, subDifficulty.val), LAMBDA diff :
        IF LeqZero(diff) THEN NoteFromZBits(Fin(0, 0))
        ELSE With(zBitsFromDifficulty(diff), LAMBDA zbits :
          IF zbits.out = "err" THEN Err ELSE NoteFromZBits(zbits.val)))))

ScaleNote(note, factor) ==
  IF ~isFinite(factor) THEN Err
  ELSE IF IsNeg(factor) THEN Err
  ELSE IF factor.k = "zero" THEN NoteFromZBits(Fin(0, 0))
  ELSE With(difficultyFromNote(note), LAMBDA difficulty :
    IF difficulty.out = "err" THEN Err
    ELSE With(zBitsFromDifficulty(Mul(difficulty.val, factor)), LAMBDA zbits :
      IF zbits.out = "err" THEN Err ELSE NoteFromZBits(zbits.val)))

------------------------------------------------------------------------------
(* Inputs of the calls                                                      *)


\* The text "{z}Z{cc}" of a label with z below 1000, written digit by digit.
D(v) == DigitChars[v + 1]
CanonicalText(z, c) ==
  (IF z >= 100 THEN <<D(z \div 100), D((z \div 10) % 10), D(z % 10)>>
   ELSE IF z >= 10 THEN <<D(z \div 10), D(z % 10)>>
   ELSE <<D(z)>>)
  \o <<"Z", D(c \div 10), D(c % 10)>>

InsertAt(s, p, ch) == SubSeq(s, 1, p) \o <<ch>> \o SubSeq(s, p + 1, Len(s))

\* A label in one of the three documented forms, optionally lower-cased, with
\* the character ws ("none": nothing) put after its p-th character.
Spell(z, c, form, lower, p, ws) ==
  LET zs == SubSeq(CanonicalText(z, c), 1, Len(CanonicalText(z, c)) - 3)
      cs == SubSeq(CanonicalText(z, c), Len(zs) + 2, Len(zs) + 3)
      base == CASE form = "std" -> zs \o <<"Z">> \o cs
                [] form = "cz" -> zs \o <<"Z">> \o cs \o <<"C", "Z">>
                [] form = "dot" -> zs \o <<".">> \o cs \o <<"Z">>
      cased == IF lower THEN ToLower(base) ELSE base
  IN IF ws = "none" THEN cased ELSE InsertAt(cased, p, ws)

Forms == {"std", "cz", "dot"}
VariantZs == (0..MaxVariantZ) \cup {33}
VariantCents == {0, 5, 53, 99}
\* Positions between two characters of the shortest spelling ("0Z00").
InnerPositions == 1..3

OtherLabels ==
  { <<"3", "3", "Z">>, <<"3", "3", "z">>, <<"3", "3", "Z", "5">>,
    <<"3", "3", "Z", "5", "C", "Z">>, <<"3", "3", ".", "5", "Z">>,
    <<"3", "3", ".", "5", "3", "7", "8", "1", "2", "Z">>,
    <<"0", ".", "0", "0", "9", "9", "9", "9", "9", "9", "9", "9", "9", "5", "Z">>,
    <<" ", "3", "3", "Z", "5", "3", "TAB">>,
    <<"a", "b", "c", "Z">>, <<>>, <<"Z", "5", "3">>, <<"3", "3">>,
    <<"3", "3", "Z", "5", "3", "3">>, <<"-", "1", "Z", "0", "0">>,
    <<"3", "3", ".", "Z">>, <<"3", "3", "Z", "C", "Z">>,
    <<"3", "3", ".", "5", "3">>, <<".", "5", "Z">> }

NanoArgs == {0, 1, NanoPerCent \div 2, NanoPerCent - 2, NanoPerCent - 1}

FloatArgs ==
  { Fin(c, n) : c \in (-2)..(MaxIntArg * centZUnitsPerZ + MaxCentZ), n \in NanoArgs }
  \cup { Fin(3353, 781200000), Huge, NHuge, PInf, NInf, NaN }

ZArgs == ((-2)..MaxIntArg) \cup {33}
CentArgs == ((-MaxIntArg)..(MaxCentZ + MaxIntArg)) \cup {-5, 150}
CentZArgs == ((-MaxIntArg)..(MaxIntArg * centZUnitsPerZ + MaxCentZ)) \cup {3353}

\* Sharenote values a caller may hold: built by the constructors, or written
\* as a struct literal (the last two), which no constructor checks.
NoteSamples ==
  { Sharenote(0, 0, Fin(0, 0)), Sharenote(33, 53, Fin(3353, 0)),
    Sharenote(33, 53, Fin(3353, 781200000)), Sharenote(20, 10, Fin(2010, 0)),
    Sharenote(0, 1, Fin(0, NanoPerCent - 1)),
    Sharenote(-1, 120, Fin(-100, 0)), Sharenote(2, 7, NaN) }

EnsureInputs ==
  { [type |-> "Sharenote", val |-> n] : n \in NoteSamples }
  \cup { [type |-> "*Sharenote", val |-> <<n>>] : n \in NoteSamples }
  \cup { [type |-> "*Sharenote", val |-> <<>>] }
  \cup { [type |-> "string", val |-> s] : s \in OtherLabels }
  \cup { [type |-> "string", val |-> Spell(z, c, f, FALSE, 0, "none")] :
           z \in VariantZs, c \in VariantCents, f \in Forms }
  \cup { [type |-> t, val |-> v] :
           t \in FloatTypes,
           v \in { Fin(c, n) : c \in {-1, 0, 1, 99, 3353}, n \in NanoArgs }
                 \cup { Huge, PInf, NInf, NaN } }
  \cup { [type |-> t, val |-> v] : t \in SignedTypes, v \in (-MaxIntArg)..MaxIntArg }
  \cup { [type |-> t, val |-> v] : t \in UnsignedTypes, v \in 0..MaxIntArg }
  \cup { [type |-> "bool", val |-> b] : b \in BOOLEAN }

\* Notes as the constructors return them, for the comparisons.
CompareFloats ==
  { Fin(c, n) : c \in {0, 1, 99, 100, 3353}, n \in {0, NanoPerCent \div 2, NanoPerCent - 1} }
  \cup { Huge }
ConstructedNotes ==
  { NoteFromZBits(f).note : f \in CompareFloats }
  \cup { noteFromComponents(z, c).note : z \in {0, 1, 33}, c \in {0, 1, 53, 99} }
CompareInputs ==
  { [type |-> "Sharenote", val |-> n] : n \in ConstructedNotes }
  \cup { [type |-> "string", val |-> <<"a", "b", "c", "Z">>] }

\* Sequences of at most n elements of S.
SeqsUpTo(S, n) == UNION { [1..m -> S] : m \in 0..n }

Str(label) == [type |-> "string", val |-> label]
Note(n) == [type |-> "Sharenote", val |-> n]

\* Notes priced by the hashrate operations: a label, a note with sub-cent
\* precision, a label that does not parse, a struct literal with NaN bits,
\* and the notes 0Z00 and 1024Z00 built from their components.
HashrateNotes ==
  { Str(<<"3", "3", "Z", "5", "3">>),
    Note(NoteFromZBits(Fin(3353, 781200000)).note),
    Str(<<"a", "b", "c", "Z">>),
    Note(Sharenote(0, 0, NaN)),
    Note(NoteFromComponents(0, 0).note),
    Note(NoteFromComponents(1024, 0).note) }

\* 0, -1, NaN, +Inf, 1, 5 and 49 seconds.
SecondsArgs ==
  { Zero, Neg(0, 0), NaN, PInf, One, Pos(232, 192809488),
    Pos(561, 470984411) }

UnknownReliability == "sometimes"

\* What a caller stores through a pointer it was handed: 0.5 and 0.99.
StoreArgs == { Confidence(50, 0), Confidence(99, 0) }
\* The presets a caller asks for after storing.
StoreLevels == { ReliabilityUsually90, ReliabilityOften95 }
\* The note and the window of the calls made around a store: 33Z53 over 5 s.
StoreNote == Str(<<"3", "3", "Z", "5", "3">>)
StoreSeconds == Pos(232, 192809488)

HashrateOptionArgs ==
  { NilOption,
    WithMultiplier(Zero), WithMultiplier(Neg(0, 0)), WithMultiplier(Pos(100, 0)),
    WithReliability(ReliabilityOften95), WithReliability(UnknownReliability),
    WithConfidence(Confidence(95, 0)), WithConfidence(Confidence(150, 0)) }

\* 0, 1, -0.1, 1.5, NaN and three confidences inside (0,1).
ConfidenceArgs ==
  { Confidence(0, 0), Confidence(100, 0), Confidence(-10, 0),
    Confidence(150, 0), NaN,
    Confidence(50, 0), Confidence(95, 0), Confidence(99, 900000000) }

\* 2.480651469e9 H/s, 1e12 H/s, 5 GH/s in three spellings, 5 with no unit,
\* 1 H/s, 0 H/s, -1 H/s, NaN H/s and 5 of an unknown unit.
HashrateArgs ==
  { HashrateValue(Pos(3120, 807190511), <<"H", "/", "s">>),
    HashrateValue(Pos(3986, 313713864), <<"H", "/", "s">>),
    HashrateValue(Pos(232, 192809488), <<"G", "H", "/", "s">>),
    HashrateValue(Pos(232, 192809488), <<"g", "h", "p", "s">>),
    HashrateValue(Pos(232, 192809488), <<>>),
    HashrateValue(One, <<"H", "/", "s">>),
    HashrateValue(Zero, <<"H", "/", "s">>),
    HashrateValue(Neg(0, 0), <<"H", "/", "s">>),
    HashrateValue(NaN, <<"H", "/", "s">>),
    HashrateValue(Pos(232, 192809488), <<"f", "o", "o", "/", "s">>) }

EstimateOptionArgs ==
  { NilEstimateOption,
    WithEstimateMultiplier(Zero), WithEstimateMultiplier(Pos(100, 0)),
    WithEstimateReliability(ReliabilityMean),
    WithEstimateReliability(ReliabilityOften95),
    WithEstimateConfidence(Confidence(95, 0)),
    WithEstimateConfidence(Confidence(150, 0)),
    WithEstimatePrimaryMode(PrimaryModeMean),
    WithEstimatePrimaryMode(PrimaryModeQuantile),
    WithEstimatePrimaryMode("median"),
    WithEstimateProbabilityPrecision(-1) }

PlanOptionArgs ==
  { NilPlanOption,
    WithPlanHashrateOptions(<<WithMultiplier(Zero)>>),
    WithPlanHashrateOptions(<<NilOption>>),
    WithPlanEstimateOptions(<<WithEstimateMultiplier(Zero)>>),
    WithPlanEstimateOptions(<<NilEstimateOption>>),
    WithPlanEstimateOptions(<<WithEstimatePrimaryMode(PrimaryModeQuantile)>>),
    WithPlanReliability(ReliabilityOften95),
    WithPlanConfidence(Confidence(95, 0)),
    WithPlanConfidence(Confidence(150, 0)) }

NBitsArgs ==
  { <<"1", "9", "7", "5", "2", "b", "5", "9">>,
    <<"1", "d", "0", "0", "f", "f", "f", "f">>,
    <<"1", "D", "0", "0", "F", "F", "F", "F">>,
    <<"0", "x", "1", "d", "0", "0", "f", "f", "f", "f">>,
    <<"0", "X", "1", "d", "0", "0", "f", "f", "f", "f", " ">>,
    <<" ", "0", "x", "1", "d", "0", "0", "f", "f", "f", "f">>,
    <<"1", "d", "0", "0", "0", "0", "0", "0">>,
    <<"1", "d", "0", "0", "f", "f", "f">>,
    <<"1", "d", "0", "0", "f", "f", "f", "g">>,
    <<"0", "3", "0", "0", "0", "0", "0", "1">>,
    <<"0", "2", "0", "0", "0", "0", "0", "1">>,
    <<"0", "0", "0", "0", "0", "0", "0", "1">>,
    <<"2", "0", "7", "f", "f", "f", "f", "f">>,
    <<"2", "3", "0", "0", "0", "0", "0", "1">>,
    <<"f", "f", "7", "f", "f", "f", "f", "f">>,
    <<>> }

\* Notes whose target is taken: notes built from their components, from
\* 0Z00 up to the last ones that have a target and beyond, two labels, a
\* label that does not parse, a note with sub-cent precision, a note with
\* more bits than an int holds, and struct literals with negative bits, with
\* NaN bits and with a target too wide for a compact value.
TargetZs ==
  {0, 33, 57, 207, 208, 209, 232, 233, 240, 241, 242, 247, 248, 255, 256, 257}
TargetCents == {0, 1, 12, 13, 50, 60, 99}
TargetNotes ==
  { Note(NoteFromComponents(z, c).note) : z \in TargetZs, c \in TargetCents }
  \cup { Str(<<"5", "7", "Z", "1", "2">>), Str(<<"5", "7", "Z", "1", "3">>),
         Str(<<"a", "b", "c", "Z">>),
         Note(NoteFromZBits(Fin(3353, 781200000)).note),
         Note(NoteFromZBits(Huge).note),
         Note(Sharenote(0, 0, Fin(-100, 0))),
         Note(Sharenote(0, 0, NaN)),
         Note(Sharenote(0, 0, Fin(-200000, 0))) }

\* Notes that are summed: three labels, a label that does not parse and a
\* struct literal whose difficulty overflows float64.
CombineArgs ==
  { Str(<<"3", "3", "Z", "5", "3">>), Str(<<"2", "0", "Z", "1", "0">>),
    Str(<<"1", "Z", "0", "0">>), Str(<<"a", "b", "c", "Z">>),
    Note(Sharenote(1100, 0, Fin(1100 * centZUnitsPerZ, 0))) }

\* Notes that are subtracted and scaled: those, three more labels, a note with
\* sub-cent precision and struct literals with negative and NaN bits.
ArithmeticArgs ==
  CombineArgs
  \cup { Str(<<"0", "Z", "0", "0">>), Str(<<"0", "Z", "5", "0">>),
         Note(NoteFromZBits(Fin(3353, 781200000)).note),
         Note(Sharenote(0, 0, Fin(-100, 0))),
         Note(Sharenote(0, 0, NaN)) }

\* 0, -1, NaN, +Inf, 1, 2, 0.5, 1.5, 2^-1070 and 2^1000.
FactorArgs ==
  { Zero, Neg(0, 0), NaN, PInf, One, Pos(100, 0), Pos(-100, 0),
    Pos(58, 496250072), Pos(-107000, 0), Pos(100000, 0) }

\* A magnitude as the caller writes it and as the float64 it stands for.
Magnitude(text, value) == [text |-> text, value |-> value]

MagnitudeArgs ==
  { Magnitude(<<"5">>, Pos(232, 192809488)),
    Magnitude(<<"+", "5">>, Pos(232, 192809488)),
    Magnitude(<<"5", ".">>, Pos(232, 192809488)),
    Magnitude(<<"-", "5">>, Neg(232, 192809488)),
    Magnitude(<<"0">>, Zero),
    Magnitude(<<".", "5">>, Pos(-100, 0)),
    Magnitude(<<"1", "2", ".", "5">>, Pos(364, 385618977)),
    Magnitude(<<"1", "_", "0", "0", "0">>, Pos(996, 578428466)),
    Magnitude(<<"1", "e", "3">>, Pos(996, 578428466)),
    Magnitude(<<"1", "e", "9", "9", "9">>, PInf),
    Magnitude(<<"N", "a", "N">>, NaN) }

\* What stands between the magnitude and the unit.
SeparatorArgs == { <<>>, <<" ">>, <<"TAB", " ">> }

\* Units in several spellings, an unknown unit, a prefix with no unit of
\* its own, and no unit.
UnitArgs ==
  { <<>>, <<"H", "/", "s">>, <<"k", "H", "/", "s">>, <<"G", "H", "/", "s">>,
    <<"g", "h", "/", "s">>, <<"G", "H", "P", "S">>, <<"g", "h", "s">>,
    <<"G", "H">>, <<"G", " ", "H", "/", "s">>, <<"G", "-", "H", "/", "s">>,
    <<"G", "_", "H", "/", "s">>, <<"Z", "H", "/", "s">>,
    <<"Y", "H", "/", "s">>, <<"E", "H", "/", "s">>,
    <<"f", "o", "o", "/", "s">>, <<"G", "H", "/", "s", " ">> }

\* 0, -1, NaN, +Inf, -Inf, 0.25, 1, 12.5, 250, 999, 3.2e9, 1e27, the powers
\* of 1000 up to 1000^8, the float64 just under each of them, and the value
\* one grid unit under each of them.
HumaniseArgs ==
  { Zero, Neg(0, 0), NaN, PInf, NInf, Pos(-200, 0), One, Pos(364, 385618977),
    Pos(796, 578428466), Pos(996, 434086779), Pos(3157, 542475909),
    Pos(8969, 205856195) }
  \cup { Pow1000(k) : k \in 1..8 }
  \cup { Nextafter(Pow1000(k)) : k \in 1..8 }
  \cup { Div(Pow1000(k), Pos(0, 1)) : k \in 1..8 }

HumanOptionArgs ==
  { NilHumanHashrateOption, WithHumanHashratePrecision(2),
    WithHumanHashratePrecision(-1) }

------------------------------------------------------------------------------
(* The caller: one call per behaviour, and for EnsureNote a second call on   *)
(* the note the first one returned.                                         *)

Init ==
  /\ arch \in {"amd64", "arm64"}
  /\ op = "none"
  /\ args = <<>>
  /\ ret = <<>>
  /\ heap = floatPtrCells

DoParseLabel ==
  /\ op = "none"
  /\ op' = "parseLabel"
  /\ \/ \E z \in 0..MaxZ, c \in MinCentZ..MaxCentZ :
          /\ args' = [label |-> CanonicalText(z, c), kind |-> "canonical",
                      z |-> z, c |-> c, form |-> "std", lower |-> FALSE,
                      ws |-> "none"]
          /\ ret' = parseLabel(CanonicalText(z, c))
     \/ \E z \in VariantZs, c \in VariantCents, f \in Forms, lower \in BOOLEAN,
           p \in InnerPositions, ws \in WhiteSpace \cup {"none"} :
          /\ args' = [label |-> Spell(z, c, f, lower, p, ws), kind |-> "variant",
                      z |-> z, c |-> c, form |-> f, lower |-> lower, ws |-> ws]
          /\ ret' = parseLabel(Spell(z, c, f, lower, p, ws))
     \/ \E s \in OtherLabels :
          /\ args' = [label |-> s, kind |-> "other", z |-> 0, c |-> 0,
                      form |-> "other", lower |-> FALSE, ws |-> "none"]
          /\ ret' = parseLabel(s)
  /\ UNCHANGED <<arch, heap>>

DoNoteFromComponents ==
  /\ op = "none"
  /\ op' = "NoteFromComponents"
  /\ \E z \in ZArgs, cents \in CentArgs :
       /\ args' = [z |-> z, cents |-> cents]
       /\ ret' = NoteFromComponents(z, cents)
  /\ UNCHANGED <<arch, heap>>

DoNoteFromZBits ==
  /\ op = "none"
  /\ op' = "NoteFromZBits"
  /\ \E zbits \in FloatArgs :
       /\ args' = [zbits |-> zbits]
       /\ ret' = NoteFromZBits(zbits)
  /\ UNCHANGED <<arch, heap>>

DoNoteFromCentZBits ==
  /\ op = "none"
  /\ op' = "NoteFromCentZBits"
  /\ \E centZ \in CentZArgs :
       /\ args' = [centZ |-> centZ]
       /\ ret' = NoteFromCentZBits(centZ)
  /\ UNCHANGED <<arch, heap>>

DoEnsureNote ==
  /\ op = "none"
  /\ op' = "EnsureNote"
  /\ \E input \in EnsureInputs :
       /\ args' = [input |-> input]
       /\ ret' = EnsureNote(input)
  /\ UNCHANGED <<arch, heap>>

DoCompareNotes ==
  /\ op = "none"
  /\ op' = "CompareNotes"
  /\ \E a \in CompareInputs, b \in CompareInputs :
       /\ args' = [a |-> a, b |-> b]
       /\ ret' = CompareNotes(a, b)
  /\ UNCHANGED <<arch, heap>>

\* EnsureNote applied to the Sharenote an earlier EnsureNote returned.
DoEnsureNoteAgain ==
  /\ op = "EnsureNote"
  /\ ret.out = "ok"
  /\ op' = "EnsureNoteAgain"
  /\ args' = [input |-> [type |-> "Sharenote", val |-> ret.note],
              first |-> args.input]
  /\ ret' = EnsureNote([type |-> "Sharenote", val |-> ret.note])
  /\ UNCHANGED <<arch, heap>>

DoRequiredHashrate ==
  /\ op = "none"
  /\ op' = "RequiredHashrate"
  /\ \E note \in HashrateNotes, seconds \in SecondsArgs,
        opts \in SeqsUpTo(HashrateOptionArgs, MaxOptions) :
       /\ args' = [note |-> note, seconds |-> seconds, opts |-> opts]
       /\ ret' = RequiredHashrate(note, seconds, opts)
  /\ UNCHANGED <<arch, heap>>

\* The caller hands the hashrate it was quoted back to NoteFromHashrate, with
\* the window and the options of the quote.
DoNoteFromRequiredHashrate ==
  /\ op = "RequiredHashrate"
  /\ ret.out = "ok"
  /\ \A i \in 1..Len(args.opts) : args.opts[i] # NilOption
  /\ op' = "NoteFromRequiredHashrate"
  /\ LET hashrate == HashrateValue(ret.val, <<"H", "/", "s">>)
     IN /\ args' = [note |-> args.note, seconds |-> args.seconds,
                    opts |-> args.opts, hashrate |-> hashrate]
        /\ ret' = NoteFromHashrate(hashrate, args.seconds, args.opts)
  /\ UNCHANGED <<arch, heap>>

DoRequiredHashrateQuantile ==
  /\ op = "none"
  /\ op' = "RequiredHashrateQuantile"
  /\ \E note \in HashrateNotes, seconds \in SecondsArgs,
        confidence \in ConfidenceArgs :
       /\ args' = [note |-> note, seconds |-> seconds,
                   confidence |-> confidence]
       /\ ret' = RequiredHashrateQuantile(note, seconds, confidence)
  /\ UNCHANGED <<arch, heap>>

DoHashrateRangeForNote ==
  /\ op = "none"
  /\ op' = "HashrateRangeForNote"
  /\ \E note \in HashrateNotes, seconds \in SecondsArgs,
        opts \in SeqsUpTo(HashrateOptionArgs, MaxOptions) :
       /\ args' = [note |-> note, seconds |-> seconds, opts |-> opts]
       /\ ret' = HashrateRangeForNote(note, seconds, opts)
  /\ UNCHANGED <<arch, heap>>

\* Hashrates of a band: its lower end, the middle of its first cent and the
\* float64 values just under its upper end.
BandSamples(range) ==
  IF range.Min.k # "pos" \/ range.Max.k # "pos" THEN {}
  ELSE { h \in { range.Min,
                 Mul(range.Min, Pos(0, 500000000)),
                 Div(range.Max, Pos(0, 1)) } :
           ~QLess(h, range.Min) /\ QLess(h, range.Max) }

\* The caller hands a hashrate of the band it was given to NoteFromHashrate,
\* with the window and the options of the band.
DoNoteFromHashrateInRange ==
  /\ op = "HashrateRangeForNote"
  /\ ret.out = "ok"
  /\ \A i \in 1..Len(args.opts) : args.opts[i] # NilOption
  /\ op' = "NoteFromHashrateInRange"
  /\ \E h \in BandSamples(ret.val) :
       LET hashrate == HashrateValue(h, <<"H", "/", "s">>)
       IN /\ args' = [note |-> args.note, seconds |-> args.seconds,
                      opts |-> args.opts, range |-> ret.val,
                      hashrate |-> hashrate]
          /\ ret' = NoteFromHashrate(hashrate, args.seconds, args.opts)
  /\ UNCHANGED <<arch, heap>>

DoNoteFromHashrate ==
  /\ op = "none"
  /\ op' = "NoteFromHashrate"
  /\ \E hashrate \in HashrateArgs, seconds \in SecondsArgs,
        opts \in SeqsUpTo(HashrateOptionArgs, MaxOptions) :
       /\ args' = [hashrate |-> hashrate, seconds |-> seconds, opts |-> opts]
       /\ ret' = NoteFromHashrate(hashrate, seconds, opts)
  /\ UNCHANGED <<arch, heap>>

DoEstimateNote ==
  /\ op = "none"
  /\ op' = "EstimateNote"
  /\ \E note \in HashrateNotes, seconds \in SecondsArgs,
        opts \in SeqsUpTo(EstimateOptionArgs, MaxOptions) :
       /\ args' = [note |-> note, seconds |-> seconds, opts |-> opts]
       /\ ret' = EstimateNote(note, seconds, opts)
  /\ UNCHANGED <<arch, heap>>

DoPlanSharenoteFromHashrate ==
  /\ op = "none"
  /\ op' = "PlanSharenoteFromHashrate"
  /\ \E hashrate \in HashrateArgs, seconds \in SecondsArgs,
        opts \in SeqsUpTo(PlanOptionArgs, MaxOptions) :
       /\ args' = [hashrate |-> hashrate, seconds |-> seconds, opts |-> opts]
       /\ ret' = PlanSharenoteFromHashrate(hashrate, seconds, opts)
  /\ UNCHANGED <<arch, heap>>

DoNBitsToSharenote ==
  /\ op = "none"
  /\ op' = "NBitsToSharenote"
  /\ \E hex \in NBitsArgs :
       /\ args' = [hex |-> hex]
       /\ ret' = NBitsToSharenote(hex)
  /\ UNCHANGED <<arch, heap>>

DoTargetFor ==
  /\ op = "none"
  /\ op' = "TargetFor"
  /\ \E note \in TargetNotes :
       /\ args' = [note |-> note]
       /\ ret' = TargetFor(note)
  /\ UNCHANGED <<arch, heap>>

\* The caller takes the target of a second note, to compare the two.
DoTargetForAgain ==
  /\ op = "TargetFor"
  /\ op' = "TargetForAgain"
  /\ \E note \in TargetNotes :
       /\ args' = [a |-> args.note, first |-> ret, b |-> note]
       /\ ret' = TargetFor(note)
  /\ UNCHANGED <<arch, heap>>

DoSharenoteToNBits ==
  /\ op = "none"
  /\ op' = "SharenoteToNBits"
  /\ \E note \in TargetNotes :
       /\ args' = [note |-> note]
       /\ ret' = SharenoteToNBits(note)
  /\ UNCHANGED <<arch, heap>>

\* The caller decodes the nBits it was given.
DoNBitsToSharenoteOfNBits ==
  /\ op = "SharenoteToNBits"
  /\ ret.out = "ok"
  /\ op' = "NBitsToSharenoteOfNBits"
  /\ args' = [note |-> args.note, hex |-> ret.val]
  /\ ret' = NBitsToSharenote(ret.val)
  /\ UNCHANGED <<arch, heap>>

DoCombineNotesSerial ==
  /\ op = "none"
  /\ op' = "CombineNotesSerial"
  /\ \E notes \in SeqsUpTo(CombineArgs, MaxNotes) :
       /\ args' = [notes |-> notes]
       /\ ret' = CombineNotesSerial(notes)
  /\ UNCHANGED <<arch, heap>>

DoNoteDifference ==
  /\ op = "none"
  /\ op' = "NoteDifference"
  /\ \E minuend \in ArithmeticArgs, subtrahend \in ArithmeticArgs :
       /\ args' = [minuend |-> minuend, subtrahend |-> subtrahend]
       /\ ret' = NoteDifference(minuend, subtrahend)
  /\ UNCHANGED <<arch, heap>>

DoScaleNote ==
  /\ op = "none"
  /\ op' = "ScaleNote"
  /\ \E note \in ArithmeticArgs, factor \in FactorArgs :
       /\ args' = [note |-> note, factor |-> factor]
       /\ ret' = ScaleNote(note, factor)
  /\ UNCHANGED <<arch, heap>>

DoParseHashrate ==
  /\ op = "none"
  /\ op' = "ParseHashrate"
  /\ \E magnitude \in MagnitudeArgs, separator \in SeparatorArgs,
        unit \in UnitArgs :
       /\ args' = [magnitude |-> magnitude, unit |-> unit,
                   input |-> magnitude.text \o separator \o unit]
       /\ ret' = ParseHashrate(magnitude.text \o separator \o unit)
  /\ UNCHANGED <<arch, heap>>

\* NormalizeHashrateValue of the magnitude and the unit that the text of the
\* ParseHashrate call was written from.
DoNormalizeHashrateValue ==
  /\ op = "ParseHashrate"
  /\ op' = "NormalizeHashrateValue"
  /\ args' = [magnitude |-> args.magnitude, unit |-> args.unit,
              input |-> args.input, parsed |-> ret]
  /\ ret' = NormalizeHashrateValue(
              HashrateValue(args.magnitude.value, args.unit))
  /\ UNCHANGED <<arch, heap>>

DoHumaniseHashrate ==
  /\ op = "none"
  /\ op' = "HumaniseHashrate"
  /\ \E hashrate \in HumaniseArgs,
        opts \in SeqsUpTo(HumanOptionArgs, MaxOptions) :
       /\ args' = [hashrate |-> hashrate, opts |-> opts]
       /\ ret' = HumaniseHashrate(hashrate, opts)
  /\ UNCHANGED <<arch, heap>>

\* The caller parses the Display it was given.
DoParseHashrateOfDisplay ==
  /\ op = "HumaniseHashrate"
  /\ args.opts = <<>>
  /\ op' = "ParseHashrateOfDisplay"
  /\ args' = [hashrate |-> args.hashrate, human |-> ret,
              input |-> DisplayText(ret.Display)]
  /\ ret' = ParseHashrate(DisplayText(ret.Display))
  /\ UNCHANGED <<arch, heap>>

DoReliabilityLevels ==
  /\ op = "none"
  /\ op' = "ReliabilityLevels"
  /\ args' = <<>>
  /\ ret' = ReliabilityLevels
  /\ UNCHANGED <<arch, heap>>

\* What a caller reads in the levels it holds: each Confidence followed to
\* its value.
LevelsRead(levels) ==
  [i \in 1..Len(levels) |->
     [levels[i] EXCEPT !.Confidence = IF @ = <<>> THEN <<>> ELSE <<Deref(@)>>]]

\* What the three calls return to a caller that asks for preset id.
CallsOf(id) ==
  [levels |-> LevelsRead(ReliabilityLevels),
   estimate |-> EstimateNote(StoreNote, StoreSeconds,
                             <<WithEstimateReliability(id)>>),
   hashrate |-> RequiredHashrate(StoreNote, StoreSeconds,
                                 <<WithReliability(id)>>)]

\* The caller stores a value through the Confidence pointer of a level that
\* ReliabilityLevels() returned (*lvl.Confidence = v), having noted what the
\* calls returned before.
DoStoreConfidence ==
  /\ op = "ReliabilityLevels"
  /\ op' = "StoreConfidence"
  /\ \E i \in 1..Len(ret), v \in StoreArgs :
       /\ ret[i].Confidence # <<>>
       /\ heap' = IF IsPackageCell(ret[i].Confidence)
                  THEN [heap EXCEPT ![ret[i].Confidence[2]] = v]
                  ELSE heap
       /\ ret' = IF IsPackageCell(ret[i].Confidence) THEN ret
                 ELSE [ret EXCEPT ![i].Confidence = <<v>>]
       /\ args' = [level |-> ret[i].ID, value |-> v,
                   before |-> CallsOf(ret[i].ID)]
  /\ UNCHANGED arch

\* The caller stores a value through the Quantile pointer of a BillEstimate
\* that EstimateNote returned (*bill.Quantile = v).
DoStoreQuantile ==
  /\ op = "EstimateNote"
  /\ ret.out = "ok"
  /\ ret.val.Quantile # <<>>
  /\ Len(args.opts) <= 1
  /\ op' = "StoreQuantile"
  /\ \E id \in StoreLevels, v \in StoreArgs :
       /\ heap' = IF IsPackageCell(ret.val.Quantile)
                  THEN [heap EXCEPT ![ret.val.Quantile[2]] = v]
                  ELSE heap
       /\ ret' = IF IsPackageCell(ret.val.Quantile) THEN ret
                 ELSE [ret EXCEPT !.val.Quantile = <<v>>]
       /\ args' = [level |-> id, value |-> v, before |-> CallsOf(id)]
  /\ UNCHANGED arch

DoReliabilityLevelsAfterStore ==
  /\ op \in {"StoreConfidence", "StoreQuantile"}
  /\ op' = "ReliabilityLevelsAfterStore"
  /\ ret' = LevelsRead(ReliabilityLevels)
  /\ UNCHANGED <<arch, args, heap>>

DoEstimateNoteAfterStore ==
  /\ op \in {"StoreConfidence", "StoreQuantile"}
  /\ op' = "EstimateNoteAfterStore"
  /\ ret' = EstimateNote(StoreNote, StoreSeconds,
                         <<WithEstimateReliability(args.level)>>)
  /\ UNCHANGED <<arch, args, heap>>

DoRequiredHashrateAfterStore ==
  /\ op \in {"StoreConfidence", "StoreQuantile"}
  /\ op' = "RequiredHashrateAfterStore"
  /\ ret' = RequiredHashrate(StoreNote, StoreSeconds,
                             <<WithReliability(args.level)>>)
  /\ UNCHANGED <<arch, args, heap>>

Next ==
  \/ DoParseLabel
  \/ DoNoteFromComponents
  \/ DoNoteFromZBits
  \/ DoNoteFromCentZBits
  \/ DoEnsureNote
  \/ DoCompareNotes
  \/ DoEnsureNoteAgain
  \/ DoRequiredHashrate
  \/ DoNoteFromRequiredHashrate
  \/ DoRequiredHashrateQuantile
  \/ DoHashrateRangeForNote
  \/ DoNoteFromHashrateInRange
  \/ DoNoteFromHashrate
  \/ DoParseHashrate
  \/ DoNormalizeHashrateValue
  \/ DoHumaniseHashrate
  \/ DoEstimateNote
  \/ DoPlanSharenoteFromHashrate
  \/ DoNBitsToSharenote
  \/ DoTargetFor
  \/ DoTargetForAgain
  \/ DoSharenoteToNBits
  \/ DoNBitsToSharenoteOfNBits
  \/ DoCombineNotesSerial
  \/ DoNoteDifference
  \/ DoScaleNote
  \/ DoParseHashrateOfDisplay
  \/ DoReliabilityLevels
  \/ DoStoreConfidence
  \/ DoStoreQuantile
  \/ DoReliabilityLevelsAfterStore
  \/ DoEstimateNoteAfterStore
  \/ DoRequiredHashrateAfterStore

Spec == Init /\ [][Next]_vars

------------------------------------------------------------------------------
(* Concurrent callers: each caller starts a call, the call runs while the   *)
(* other callers start and finish theirs, and returns.  Here op, args and   *)
(* ret hold one entry per caller.                                           *)

Callers == 1..MaxCallers

Call(name, id) == [name |-> name, id |-> id]
NoCall == Call("", "")

\* The calls that are made at the same time: they read the reliability
\* presets, the unit tables and the compiled patterns.
ConcurrentCalls ==
  { Call("ReliabilityLevels", ""),
    Call("EstimateNote", ReliabilityUsually90),
    Call("EstimateNote", ReliabilityOften95),
    Call("RequiredHashrate", ReliabilityOften95),
    Call("PlanSharenoteFromHashrate", ReliabilityOften95),
    Call("HumaniseHashrate", ""),
    Call("ParseHashrate", ""),
    Call("NBitsToSharenote", "") }

\* What the call returns, given what the package's cells hold when it runs.
ResultOf(call) ==
  CASE call.name = "ReliabilityLevels" -> LevelsRead(ReliabilityLevels)
    [] call.name = "EstimateNote" ->
         EstimateNote(StoreNote, StoreSeconds,
                      <<WithEstimateReliability(call.id)>>)
    [] call.name = "RequiredHashrate" ->
         RequiredHashrate(StoreNote, StoreSeconds, <<WithReliability(call.id)>>)
    [] call.name = "PlanSharenoteFromHashrate" ->
         PlanSharenoteFromHashrate(
           HashrateValue(Pos(232, 192809488), <<"G", "H", "/", "s">>),
           StoreSeconds, <<WithPlanReliability(call.id)>>)
    [] call.name = "HumaniseHashrate" ->
         HumaniseHashrate(Pos(3157, 542475909), <<>>)
    [] call.name = "ParseHashrate" ->
         ParseHashrate(<<"5", " ", "G", "H", "/", "s">>)
    [] call.name = "NBitsToSharenote" ->
         NBitsToSharenote(<<"1", "d", "0", "0", "f", "f", "f", "f">>)

\* The package's cells after the call has run: no operation assigns to
\* package-level state or stores through a pointer of the tables.
PackageAfter_PresetRewritten(call) ==
  IF call.name = "EstimateNote"
  THEN [heap EXCEPT ![call.id] = Confidence(50, 0)]
  ELSE heap

PackageAfter(call) == heap

InitConcurrent ==
  /\ arch \in {"amd64", "arm64"}
  /\ op = [p \in Callers |-> "idle"]
  /\ args = [p \in Callers |-> NoCall]
  /\ ret = [p \in Callers |-> <<>>]
  /\ heap = floatPtrCells

\* Caller p starts a call.
Begin(p) ==
  /\ op[p] = "idle"
  /\ \E call \in ConcurrentCalls : args' = [args EXCEPT ![p] = call]
  /\ op' = [op EXCEPT ![p] = "running"]
  /\ UNCHANGED <<arch, ret, heap>>

\* The call of caller p runs and returns.
Return(p) ==
  /\ op[p] = "running"
  /\ ret' = [ret EXCEPT ![p] = ResultOf(args[p])]
  /\ heap' = PackageAfter(args[p])
  /\ op' = [op EXCEPT ![p] = "returned"]
  /\ UNCHANGED <<arch, args>>

\* Caller p drops the result and is free to call again.
Again(p) ==
  /\ op[p] = "returned"
  /\ op' = [op EXCEPT ![p] = "idle"]
  /\ args' = [args EXCEPT ![p] = NoCall]
  /\ ret' = [ret EXCEPT ![p] = <<>>]
  /\ UNCHANGED <<arch, heap>>

NextConcurrent ==
  \E p \in Callers : Begin(p) \/ Return(p) \/ Again(p)

SpecConcurrent == InitConcurrent /\ [][NextConcurrent]_vars

------------------------------------------------------------------------------
(* Properties                                                               *)

Min(a, b) == IF a < b THEN a ELSE b
Max(a, b) == IF a > b THEN a ELSE b

\* The operations that return a Sharenote they built.
NoteBuilders ==
  { "parseLabel", "NoteFromComponents", "NoteFromZBits", "NoteFromCentZBits",
    "NoteFromHashrate", "NBitsToSharenote", "CombineNotesSerial",
    "NoteDifference", "ScaleNote" }

\* The call built a note: one of the builders, or EnsureNote on a string or
\* a number (a Sharenote or *Sharenote is handed back as it came).
BuiltNote ==
  \/ op \in NoteBuilders
  \/ op = "EnsureNote" /\ args.input.type \notin {"Sharenote", "*Sharenote"}

\* C1: every Sharenote returned without error by parseLabel,
\* NoteFromComponents, NoteFromZBits, NoteFromCentZBits, EnsureNote (on a
\* string or a number), NoteFromHashrate, NBitsToSharenote,
\* CombineNotesSerial, NoteDifference or ScaleNote has Z >= 0,
\* 0 <= Cents <= 99, and ZBits finite and >= 0.
C1_NoteInvariant ==
  (BuiltNote /\ ret.out = "ok") =>
    /\ ret.note.Z >= 0
    /\ ret.note.Cents >= 0
    /\ ret.note.Cents <= 99
    /\ isFinite(ret.note.ZBits)
    /\ ~IsNegative(ret.note.ZBits)

\* A value no int can hold still yields a note inside the ranges.
C1_Witness ==
  /\ op = "NoteFromZBits"
  /\ args.zbits = Huge
  /\ ret.out = "ok"
  /\ ret.note.ZBits = Huge
  /\ ret.note.Z >= 0
  /\ ret.note.Cents \in 0..99

\* C2: parseLabel of the canonical label "{z}Z{cc}" succeeds with Z = z,
\* Cents = c and ZBits = z + c * 0.01, and Label() of the note is the same
\* text again.
C2_LabelRoundTrip ==
  (op = "parseLabel" /\ args.kind = "canonical") =>
    /\ ret.out = "ok"
    /\ ret.note.Z = args.z
    /\ ret.note.Cents = args.c
    /\ ret.note.ZBits = Fin(args.z * 100 + args.c, 0)
    /\ Label(ret.note) = args.label

C2_Witness ==
  /\ op = "parseLabel"
  /\ args.kind = "canonical"
  /\ args.label = <<"2", "0", "0", "Z", "0", "5">>
  /\ ret.out = "ok"
  /\ ret.note.Z = 200
  /\ ret.note.Cents = 5

\* C3: the standard, suffixed and dotted forms of a label, lower-cased or not
\* and with a whitespace character put between two of their characters or
\* not, all parse to the note Z = z, Cents = cc, ZBits = z + cc * 0.01.
C3_VariantsParseAlike ==
  (op = "parseLabel" /\ args.kind = "variant") =>
    ret = Ok(Sharenote(args.z, args.c, Fin(args.z * 100 + args.c, 0)))

\* The part of C3 the code keeps: the same with only the space character
\* (U+0020) as the whitespace that is put in.
C3_SpaceVariantsParseAlike ==
  (op = "parseLabel" /\ args.kind = "variant" /\ args.ws \in {"none", " "}) =>
    ret = Ok(Sharenote(args.z, args.c, Fin(args.z * 100 + args.c, 0)))

\* C4 as stated, for b below 2^63: for every finite b >= 0 NoteFromZBits(b)
\* keeps ZBits = b and has Z = floor(b), Cents = floor((b - Z) * 100).
C4_FloorCents ==
  (op = "NoteFromZBits" /\ args.zbits.k = "fin" /\ args.zbits.c >= 0) =>
    /\ ret.out = "ok"
    /\ ret.note.ZBits = args.zbits
    /\ ret.note.Z = args.zbits.c \div 100
    /\ ret.note.Cents = args.zbits.c % 100

\* C4 as stated, for a finite b far above 2^63: Z = floor(b), which is above
\* every int.
C4_FloorOfHuge ==
  (op = "NoteFromZBits" /\ args.zbits.k = "huge") =>
    (ret.out = "ok" /\ ret.note.ZBits = args.zbits /\ ret.note.Z > MaxInt)

\* C4 as amended: for every finite b with 0 <= b < 2^63 NoteFromZBits(b)
\* keeps ZBits = b and has Z = floor(b), Cents = min(99, floor((b - Z) / 0.01
\* + 1e-9)): floor((b - Z) * 100), except that a b less than 1e-11 below a
\* cent boundary gets the next cent (99 staying 99); the label is the
\* cent-quantized one.
C4_EpsilonFloorCents ==
  (op = "NoteFromZBits" /\ args.zbits.k = "fin" /\ args.zbits.c >= 0) =>
    /\ ret.out = "ok"
    /\ ret.note.ZBits = args.zbits
    /\ ret.note.Z = args.zbits.c \div 100
    /\ ret.note.Cents =
         IF args.zbits.n = NanoPerCent - 1
         THEN Min(99, (args.zbits.c % 100) + 1)
         ELSE args.zbits.c % 100
    /\ Label(ret.note) = CanonicalText(ret.note.Z, ret.note.Cents)
    /\ (args.zbits = Fin(3353, 781200000) =>
          Label(ret.note) = <<"3", "3", "Z", "5", "3">>)

C4_Witness ==
  /\ op = "NoteFromZBits"
  /\ args.zbits = Fin(152, NanoPerCent - 1)
  /\ ret.out = "ok"
  /\ ret.note.Z = 1
  /\ ret.note.Cents = 53
  /\ ret.note.ZBits = Fin(152, NanoPerCent - 1)

\* Labels that match none of the three grammars.
BadLabels ==
  { <<"a", "b", "c", "Z">>, <<>>, <<"Z", "5", "3">>, <<"3", "3">>,
    <<"3", "3", "Z", "5", "3", "3">>, <<"-", "1", "Z", "0", "0">>,
    <<"3", "3", ".", "Z">>, <<"3", "3", "Z", "C", "Z">>,
    <<"3", "3", ".", "5", "3">>, <<".", "5", "Z">> }

NumericTypes == FloatTypes \cup SignedTypes \cup UnsignedTypes

\* C5: EnsureNote returns an error and the zero Sharenote for a string that
\* matches no label grammar, a negative or non-finite number of any numeric
\* type, a nil *Sharenote, and a value of any other type.
C5_EnsureNoteRejects ==
  (/\ op = "EnsureNote"
   /\ \/ args.input.type = "string" /\ args.input.val \in BadLabels
      \/ args.input.type \in FloatTypes
           /\ args.input.val.k \in {"nan", "pinf", "ninf"}
      \/ args.input.type \in FloatTypes
           /\ args.input.val.k = "fin" /\ args.input.val.c < 0
      \/ args.input.type \in SignedTypes /\ args.input.val < 0
      \/ args.input.type = "*Sharenote" /\ args.input.val = <<>>
      \/ args.input.type \notin NumericTypes \cup {"string", "Sharenote", "*Sharenote"})
  => (ret.out = "err" /\ ret.note = ZeroSharenote)

C5_Witness ==
  /\ op = "EnsureNote"
  /\ args.input.type = "int16"
  /\ args.input.val = -1
  /\ ret.out = "err"
  /\ ret.note = ZeroSharenote

\* C6: EnsureNote of a Sharenote returns that value unchanged, so EnsureNote
\* of the note EnsureNote returned for a label yields the same Z, Cents,
\* ZBits and label.
C6_EnsureNoteIdempotent ==
  /\ (op = "EnsureNote" /\ args.input.type = "Sharenote") =>
       ret = Ok(args.input.val)
  /\ (op = "EnsureNoteAgain") =>
       /\ ret.out = "ok"
       /\ ret.note = args.input.val
       /\ Label(ret.note) = Label(args.input.val)

C6_Witness ==
  /\ op = "EnsureNoteAgain"
  /\ args.first.type = "string"
  /\ args.first.val = <<"3", "3", ".", "5", "3", "7", "8", "1", "2", "Z">>
  /\ ret.out = "ok"
  /\ ret.note.ZBits = Fin(3353, 781200000)
  /\ Label(ret.note) = <<"3", "3", "Z", "5", "3">>

\* C7: NoteFromCentZBits(n) fails iff n < 0; otherwise Z = n div 100 and
\* Cents = n mod 100, so 100 * Z + Cents = n with Cents in 0..99.
C7_CentZBitsSplit ==
  (op = "NoteFromCentZBits") =>
    /\ (ret.out = "err") <=> (args.centZ < 0)
    /\ (args.centZ >= 0) =>
         /\ ret.out = "ok"
         /\ 100 * ret.note.Z + ret.note.Cents = args.centZ
         /\ ret.note.Cents \in 0..99
         /\ ret.note.Z >= 0
         /\ ret.note.ZBits = Fin(args.centZ, 0)

C7_Witness ==
  /\ op = "NoteFromCentZBits"
  /\ args.centZ = 101
  /\ ret.out = "ok"
  /\ Label(ret.note) = <<"1", "Z", "0", "1">>

\* C8: NoteFromComponents(z, cents) fails iff z < 0; otherwise Z = z,
\* Cents = min(max(cents, 0), 99) and ZBits = Z + Cents * 0.01.
C8_ComponentsClamp ==
  (op = "NoteFromComponents") =>
    /\ (ret.out = "err") <=> (args.z < 0)
    /\ (args.z >= 0) =>
         /\ ret.out = "ok"
         /\ ret.note.Z = args.z
         /\ ret.note.Cents = Min(Max(args.cents, 0), 99)
         /\ ret.note.ZBits = Fin(100 * args.z + Min(Max(args.cents, 0), 99), 0)

C8_Witness ==
  /\ op = "NoteFromComponents"
  /\ args.z = 33
  /\ args.cents = 150
  /\ ret.out = "ok"
  /\ ret.note.Cents = 99
  /\ ret.note.ZBits = Fin(3399, 0)

\* (Z, Cents) of a before (Z, Cents) of b.
LexLess(a, b) == a.Z < b.Z \/ (a.Z = b.Z /\ a.Cents < b.Cents)

Cmp(a, b) == CompareNotes([type |-> "Sharenote", val |-> a],
                          [type |-> "Sharenote", val |-> b]).cmp

\* C9 as stated, for ZBits below 2^63: on notes the constructors return,
\* CompareNotes is -1, 0 or 1, antisymmetric and transitive, -1 whenever
\* a.ZBits < b.ZBits, and 0 only when the two notes have equal ZBits.
C9_OrderByZBits ==
  (/\ op = "CompareNotes" /\ ret.out = "ok"
   /\ args.a.val.ZBits.k = "fin" /\ args.b.val.ZBits.k = "fin") =>
    LET a == args.a.val
        b == args.b.val
    IN /\ ret.cmp \in {-1, 0, 1}
       /\ ret.cmp = -Cmp(b, a)
       /\ \A c \in ConstructedNotes :
            (ret.cmp <= 0 /\ Cmp(b, c) <= 0) => Cmp(a, c) <= 0
       /\ FLess(a.ZBits, b.ZBits) => ret.cmp = -1
       /\ (ret.cmp = 0) => (a.ZBits = b.ZBits)

\* C9 as amended: CompareNotes is -1, 0 or 1 by Z and then Cents; it is
\* antisymmetric and transitive; it is 0 exactly when the two notes have the
\* same Z and Cents (the same label), whatever their ZBits; and on notes the
\* constructors return with ZBits below 2^63 it is never 1 when
\* a.ZBits < b.ZBits.
C9_OrderByLabel ==
  (op = "CompareNotes" /\ ret.out = "ok") =>
    LET a == args.a.val
        b == args.b.val
    IN /\ ret.cmp \in {-1, 0, 1}
       /\ ret.cmp = -Cmp(b, a)
       /\ \A c \in ConstructedNotes :
            (ret.cmp <= 0 /\ Cmp(b, c) <= 0) => Cmp(a, c) <= 0
       /\ (ret.cmp = -1) <=> LexLess(a, b)
       /\ (ret.cmp = 0) <=> (a.Z = b.Z /\ a.Cents = b.Cents)
       /\ (FLess(a.ZBits, b.ZBits) /\ a.ZBits.k = "fin" /\ b.ZBits.k = "fin")
            => ret.cmp <= 0

C9_Witness ==
  /\ op = "CompareNotes"
  /\ args.a.type = "Sharenote"
  /\ args.b.type = "Sharenote"
  /\ args.a.val = Sharenote(33, 53, Fin(3353, 0))
  /\ args.b.val = Sharenote(33, 53, Fin(3353, NanoPerCent \div 2))
  /\ ret.out = "ok"
  /\ ret.cmp = 0

\* seconds <= 0 or not finite.
BadSeconds(seconds) == ~isFinite(seconds) \/ LeqZero(seconds)

\* The multiplier the hashrate options of a call resolve to, and the one its
\* estimate options resolve to (a nil entry configures nothing).
HashrateMultiplierOf(opts) ==
  ApplyHashrateOptions(hashrateOptions, opts, TRUE).cfg.multiplier
EstimateMultiplierOf(opts) ==
  ApplyEstimateOptions(defaultEstimateOptions,
                       SelectSeq(opts, LAMBDA o : o.opt # "nil")).cfg.multiplier
PlanOptionsOf(opts) ==
  ApplyPlanOptions(planOptions, SelectSeq(opts, LAMBDA o : o.opt # "nil")).cfg

\* The call was given a window or a multiplier that must be refused.
BadWindow ==
  \/ /\ op \in {"RequiredHashrate", "HashrateRangeForNote", "NoteFromHashrate"}
     /\ BadSeconds(args.seconds) \/ LeqZero(HashrateMultiplierOf(args.opts))
  \/ /\ op = "EstimateNote"
     /\ BadSeconds(args.seconds) \/ LeqZero(EstimateMultiplierOf(args.opts))
  \/ /\ op = "PlanSharenoteFromHashrate"
     /\ \/ BadSeconds(args.seconds)
        \/ LeqZero(HashrateMultiplierOf(PlanOptionsOf(args.opts).hashrateOpts))
        \/ LeqZero(EstimateMultiplierOf(PlanOptionsOf(args.opts).estimateOpts))

\* The call returned an error together with the zero value of its result.
ZeroAndError ==
  /\ ret.out = "err"
  /\ CASE op = "NoteFromHashrate" -> ret.note = ZeroSharenote
       [] op = "RequiredHashrate" -> ret.val = Zero
       [] op = "RequiredHashrateQuantile" -> ret.val = Zero
       [] op = "HashrateRangeForNote" -> ret.val = HashrateRange(Zero, Zero)
       [] op = "EstimateNote" -> ret.val = ZeroBillEstimate
       [] op = "PlanSharenoteFromHashrate" -> ret.val = ZeroSharenotePlan

\* C10: RequiredHashrate, HashrateRangeForNote, NoteFromHashrate,
\* EstimateNote and PlanSharenoteFromHashrate each return an error and a zero
\* result whenever seconds <= 0 (or is not finite) or the resolved multiplier
\* is <= 0, and RequiredHashrateQuantile returns an error whenever
\* confidence <= 0 or confidence >= 1.
C10_BadWindowIsAnError ==
  /\ BadWindow => ZeroAndError
  /\ (op = "RequiredHashrateQuantile"
      /\ (ConfidenceLeqZero(args.confidence)
          \/ ConfidenceGeqOne(args.confidence))) => ZeroAndError

\* No option of the call is nil, the forwarded ones of a plan included.
RECURSIVE NoNilOption(_)
NoNilOption(opts) ==
  \A i \in 1..Len(opts) :
    /\ opts[i].opt # "nil"
    /\ "hashrateOpts" \in DOMAIN opts[i] =>
         NoNilOption(opts[i].hashrateOpts) /\ NoNilOption(opts[i].estimateOpts)

\* The refusals of C10 hold for every call whose options are all non-nil.
C10_BadWindowIsAnErrorWithoutNil ==
  ("opts" \in DOMAIN args /\ NoNilOption(args.opts)) => C10_BadWindowIsAnError

\* NoteFromHashrate calls a nil option before it looks at seconds.
C10_NilBeforeSeconds ==
  /\ op = "NoteFromHashrate"
  /\ BadSeconds(args.seconds)
  /\ args.opts = <<NilOption>>
  /\ ret.out = "panic"

\* The input resolves to a note whose ZBits is a whole number of cents, as
\* NoteFromComponents builds it.
CentAligned(input) ==
  LET resolved == EnsureNote(input)
  IN /\ resolved.out = "ok"
     /\ resolved.note.ZBits.k = "fin"
     /\ resolved.note = NoteFromComponents(resolved.note.Z,
                                           resolved.note.Cents).note

\* C11: NoteFromHashrate inverts RequiredHashrate: for every cent-aligned
\* note n, seconds s > 0 and multiplier m > 0, NoteFromHashrate applied to the
\* H/s value RequiredHashrate(n, s, m), with the same s and m, returns a note
\* with n's label.
C11_NoteFromHashrateInverts ==
  (op = "NoteFromRequiredHashrate" /\ CentAligned(args.note)) =>
    /\ ret.out = "ok"
    /\ Label(ret.note) = Label(EnsureNote(args.note).note)

\* The inverse holds for every cent-aligned note above 0Z00 whose required
\* hashrate float64 can hold.
C11_InvertsAwayFromTheEdges ==
  (/\ op = "NoteFromRequiredHashrate"
   /\ CentAligned(args.note)
   /\ EnsureNote(args.note).note.ZBits # Fin(0, 0)
   /\ args.hashrate.Value.k = "pos") => C11_NoteFromHashrateInverts

\* The quote for 0Z00 over 49 seconds, times 49, is just below 1 and its
\* log2 is refused as negative.
C11_RoundedBelowZero ==
  /\ op = "NoteFromRequiredHashrate"
  /\ args.note = Note(NoteFromComponents(0, 0).note)
  /\ args.seconds = Pos(561, 470984411)
  /\ args.opts = <<>>
  /\ ret.out = "err"

\* The quote for 1024Z00 is +Inf, which NoteFromHashrate refuses.
C11_QuoteOverflows ==
  /\ op = "NoteFromRequiredHashrate"
  /\ args.note = Note(NoteFromComponents(1024, 0).note)
  /\ args.hashrate.Value = PInf
  /\ ret.out = "err"

\* The options of the call without the nil entries, which
\* HashrateRangeForNote skips.
WithoutNil(opts) == SelectSeq(opts, LAMBDA o : o # NilOption)

\* C12: HashrateRangeForNote(n, s, m) returns Min <= Max with
\* Min = RequiredHashrate(n, s, m), and every hashrate h with Min <= h < Max
\* gives NoteFromHashrate(h, s, m) the label of n, whether or not n's ZBits
\* is a whole number of cents.
C12_RangeIsTheLabelBand ==
  /\ (op = "HashrateRangeForNote" /\ ret.out = "ok") =>
       /\ ~QLess(ret.val.Max, ret.val.Min)
       /\ ret.val.Min
            = RequiredHashrate(args.note, args.seconds, WithoutNil(args.opts)).val
  /\ op = "NoteFromHashrateInRange" =>
       /\ ret.out = "ok"
       /\ Label(ret.note) = Label(EnsureNote(args.note).note)

\* What the band does give: Min <= Max, Min is the required hashrate, and a
\* hashrate of the band maps to a note of at least n's ZBits and less than a
\* cent more, unless it is the float64 just under 1.
C12_RangeIsOneCentOfBits ==
  /\ (op = "HashrateRangeForNote" /\ ret.out = "ok") =>
       /\ ~QLess(ret.val.Max, ret.val.Min)
       /\ ret.val.Min
            = RequiredHashrate(args.note, args.seconds, WithoutNil(args.opts)).val
  /\ (op = "NoteFromHashrateInRange" /\ ret.out = "ok") =>
       /\ ~FLess(ret.note.ZBits, EnsureNote(args.note).note.ZBits)
       /\ FLess(ret.note.ZBits, AddCent(EnsureNote(args.note).note.ZBits))
  /\ (op = "NoteFromHashrateInRange" /\ ret.out # "ok") =>
       EnsureNote(args.note).note.ZBits = Fin(0, 0)

\* A hashrate just under Max of the band of 33Z53 maps to 33Z54.
C12_TopOfBandIsNextLabel ==
  /\ op = "NoteFromHashrateInRange"
  /\ args.note = Str(<<"3", "3", "Z", "5", "3">>)
  /\ args.hashrate.Value = Div(args.range.Max, Pos(0, 1))
  /\ ret.out = "ok"
  /\ Label(ret.note) = <<"3", "3", "Z", "5", "4">>

\* Both calls of TargetFor returned a target.
TwoTargets ==
  op = "TargetForAgain" /\ args.first.out = "ok" /\ ret.out = "ok"

ZBitsOf(input) == EnsureNote(input).note.ZBits

\* C13: TargetFor is strictly monotone decreasing: for any two notes a and b
\* for which TargetFor succeeds and a.ZBits < b.ZBits,
\* TargetFor(a) > TargetFor(b).
C13_TargetStrictlyDecreasing ==
  (TwoTargets /\ FLess(ZBitsOf(args.a), ZBitsOf(args.b))) =>
    BigCmp(args.first.val, ret.val) = 1

\* C13 as it holds: TargetFor never increases with the bits, and it
\* decreases from a note to one that has at least a cent more and at most
\* 248 bits, where the targets still have more than eight bits.
C13_TargetDecreasesByCents ==
  (TwoTargets /\ FLess(ZBitsOf(args.a), ZBitsOf(args.b))) =>
    /\ BigCmp(args.first.val, ret.val) >= 0
    /\ (/\ ~FLess(ZBitsOf(args.b), AddCent(ZBitsOf(args.a)))
        /\ ~FLess(FromInt(248), ZBitsOf(args.b))) =>
         BigCmp(args.first.val, ret.val) = 1

\* 255Z50 and 255Z60 both have the target 1.
C13_SharedTarget ==
  /\ TwoTargets
  /\ args.a = Note(NoteFromComponents(255, 50).note)
  /\ args.b = Note(NoteFromComponents(255, 60).note)
  /\ args.first.val = BigInt(0, 1, 0)
  /\ ret.val = BigInt(0, 1, 0)

\* 247Z99 and 248Z00 have different targets.
C13_Witness ==
  /\ TwoTargets
  /\ args.a = Note(NoteFromComponents(247, 99).note)
  /\ args.b = Note(NoteFromComponents(248, 0).note)
  /\ BigCmp(args.first.val, ret.val) = 1
  /\ ret.val = BigInt(0, 256, 0)

\* TargetFor was called on a note: the input resolves and its ZBits is
\* finite and not negative.
TargetOfANote ==
  /\ op = "TargetFor"
  /\ EnsureNote(args.note).out = "ok"
  /\ isFinite(ZBitsOf(args.note))
  /\ ~IsNegative(ZBitsOf(args.note))

\* The call returned a target that is floor(2^(256 - ZBits)) as far as its
\* size tells: at least 1, at most 2^256, and of 257 - ceil(ZBits) bits.
WholeTargetOf(zbits) ==
  /\ ret.out = "ok"
  /\ BigSign(ret.val) = 1
  /\ BigCmp(ret.val, BigInt(Limb \div 2, 0, 209)) <= 0
  /\ BigBitLen(ret.val)
       = 257 - (FloorBits(zbits.c) + (IF Significand(zbits) = <<0, 0>> THEN 0 ELSE 1))

\* C14: TargetFor returns an error and no target for every note with
\* ZBits > 256; for every note with ZBits <= 256 it succeeds with
\* floor(2^(256 - ZBits)), a strictly positive integer of at most 2^256; it
\* never returns a zero target together with a nil error.
C14_TargetForUpTo256 ==
  TargetOfANote =>
    /\ FLess(FromInt(256), ZBitsOf(args.note)) =>
         ret.out = "err" /\ ret.val = <<>>
    /\ ~FLess(FromInt(256), ZBitsOf(args.note)) =>
         WholeTargetOf(ZBitsOf(args.note))
    /\ ~(ret.out = "ok" /\ BigSign(ret.val) = 0)

\* What TargetFor does: the error starts at 257 bits, and between 256 and
\* 257 bits the target is zero with a nil error.
C14_TargetForUpTo257 ==
  TargetOfANote =>
    /\ ~FLess(ZBitsOf(args.note), FromInt(257)) =>
         ret.out = "err" /\ ret.val = <<>>
    /\ ~FLess(FromInt(256), ZBitsOf(args.note)) =>
         WholeTargetOf(ZBitsOf(args.note))
    /\ (/\ FLess(FromInt(256), ZBitsOf(args.note))
        /\ FLess(ZBitsOf(args.note), FromInt(257))) =>
         ret.out = "ok" /\ BigSign(ret.val) = 0

\* TargetFor of 256Z01 is zero and no error.
C14_ZeroTarget ==
  /\ op = "TargetFor"
  /\ args.note = Note(NoteFromComponents(256, 1).note)
  /\ ret = OkQ(BigInt(0, 0, 0))

\* Eight lower-case hex characters.
IsNBitsText(s) ==
  Len(s) = 8 /\ \A i \in 1..8 : \E j \in 1..16 : HexChars[j] = s[i]

\* C15: for every cent-aligned note n for which SharenoteToNBits(n)
\* succeeds, the result is an 8-character lower-case hex string,
\* NBitsToSharenote of that string succeeds, and the decoded note has the
\* label of n.
C15_NBitsRoundTrip ==
  /\ (op = "SharenoteToNBits" /\ CentAligned(args.note) /\ ret.out = "ok") =>
       IsNBitsText(ret.val)
  /\ (op = "NBitsToSharenoteOfNBits" /\ CentAligned(args.note)) =>
       /\ ret.out = "ok"
       /\ Label(ret.note) = Label(EnsureNote(args.note).note)

\* The round trip holds for the cent-aligned notes of at most 241 bits, whose
\* targets fill three bytes or more.
C15_RoundTripUpTo241 ==
  /\ (op = "SharenoteToNBits" /\ CentAligned(args.note) /\ ret.out = "ok") =>
       IsNBitsText(ret.val)
  /\ (/\ op = "NBitsToSharenoteOfNBits"
      /\ CentAligned(args.note)
      /\ ~FLess(FromInt(241), ZBitsOf(args.note))) =>
       /\ ret.out = "ok"
       /\ Label(ret.note) = Label(EnsureNote(args.note).note)

\* 255Z50 encodes to "01010000", which NBitsToSharenote refuses.
C15_SmallTargetIsRefused ==
  /\ op = "NBitsToSharenoteOfNBits"
  /\ args.note = Note(NoteFromComponents(255, 50).note)
  /\ args.hex = <<"0", "1", "0", "1", "0", "0", "0", "0">>
  /\ ret.out = "err"

\* The input is a valid note: it resolves, and its ZBits is finite and not
\* negative.
ValidNote(input) ==
  /\ EnsureNote(input).out = "ok"
  /\ isFinite(ZBitsOf(input))
  /\ ~IsNegative(ZBitsOf(input))

\* 2^a.ZBits - 2^b.ZBits as float64 computes it.
DifficultyGap(a, b) == Sub(Exp2(ZBitsOf(a)), Exp2(ZBitsOf(b)))

\* C16: for any two valid notes a and b, NoteDifference(a, b) returns a note
\* and no error: the zero note when 2^a.ZBits - 2^b.ZBits <= 0, and
\* otherwise the note with ZBits = log2(2^a.ZBits - 2^b.ZBits).
C16_DifferenceIsANote ==
  (op = "NoteDifference" /\ ValidNote(args.minuend)
   /\ ValidNote(args.subtrahend)) =>
    /\ ret.out = "ok"
    /\ IF FLess(ZBitsOf(args.subtrahend), ZBitsOf(args.minuend))
       THEN ret.note.ZBits
              = Log2(DifficultyGap(args.minuend, args.subtrahend))
       ELSE ret.note = ZeroSharenote

\* What NoteDifference does with two valid notes: the zero note for a gap
\* of at most 0, the note of log2 of the gap for a finite gap of at least 1,
\* and an error for a gap between 0 and 1, for +Inf and for NaN.
C16_DifferenceOfAtLeastOne ==
  (op = "NoteDifference" /\ ValidNote(args.minuend)
   /\ ValidNote(args.subtrahend)) =>
    LET gap == DifficultyGap(args.minuend, args.subtrahend)
    IN CASE LeqZero(gap) -> ret = Ok(ZeroSharenote)
         [] gap.k = "pos" /\ gap.c >= 0 ->
              ret.out = "ok" /\ ret.note.ZBits = Log2(gap)
         [] OTHER -> ret = Err

\* 1Z00 minus 0Z50 is a gap of 0.586, whose log2 is refused as negative.
C16_GapBelowOneIsRefused ==
  /\ op = "NoteDifference"
  /\ args.minuend = Str(<<"1", "Z", "0", "0">>)
  /\ args.subtrahend = Str(<<"0", "Z", "5", "0">>)
  /\ ret = Err

\* n.ZBits + log2(f) for a finite n.ZBits and a factor f > 0.
ScaledBits(zbits, factor) ==
  LET s == zbits.n + factor.n
  IN Fin(zbits.c + factor.c + s \div NanoPerCent, s % NanoPerCent)

\* C17: for every valid note n and every finite factor f >= 0,
\* ScaleNote(n, f) succeeds: f = 0 yields the zero note and f > 0 yields the
\* note with ZBits = n.ZBits + log2 f; a negative or non-finite factor
\* yields an error.
C17_ScaleSucceeds ==
  (op = "ScaleNote" /\ ValidNote(args.note)) =>
    CASE ~isFinite(args.factor) \/ IsNeg(args.factor) -> ret = Err
      [] args.factor = Zero -> ret = Ok(ZeroSharenote)
      [] OTHER ->
           /\ ret.out = "ok"
           /\ ret.note.ZBits = ScaledBits(ZBitsOf(args.note), args.factor)

\* What ScaleNote does with a valid note: as C17 says when the scaled
\* difficulty is a finite float64 of at least 1, and an error when it is
\* below 1, underflows to 0 or overflows.
C17_ScaleToAtLeastOne ==
  (op = "ScaleNote" /\ ValidNote(args.note)) =>
    LET scaled == Mul(Exp2(ZBitsOf(args.note)), args.factor)
    IN CASE ~isFinite(args.factor) \/ IsNeg(args.factor) -> ret = Err
         [] args.factor = Zero -> ret = Ok(ZeroSharenote)
         [] scaled.k = "pos" /\ scaled.c >= 0 ->
              /\ ret.out = "ok"
              /\ ret.note.ZBits = ScaledBits(ZBitsOf(args.note), args.factor)
         [] OTHER -> ret = Err

\* Half of 0Z00 is a difficulty of 0.5, whose log2 is refused as negative.
C17_HalfOfZeroBitsIsRefused ==
  /\ op = "ScaleNote"
  /\ args.note = Str(<<"0", "Z", "0", "0">>)
  /\ args.factor = Pos(-100, 0)
  /\ ret = Err

\* Every note of the list is valid.
AllValid(notes) == \A i \in 1..Len(notes) : ValidNote(notes[i])

\* The call returned the note of the summed difficulty, which has at least
\* the bits of every input.
IsSumOf(notes) ==
  /\ ret.out = "ok"
  /\ ret.note.ZBits = Log2(SumDifficulties(notes, Zero).val)
  /\ \A i \in 1..Len(notes) : ~FLess(ret.note.ZBits, ZBitsOf(notes[i]))

\* C18: CombineNotesSerial of a non-empty list of valid notes returns the
\* note whose difficulty 2^ZBits is the sum of the inputs' difficulties, so
\* the result has at least the ZBits of the hardest input; the empty list,
\* or any invalid element, yields an error.
C18_CombineIsTheSum ==
  op = "CombineNotesSerial" =>
    IF Len(args.notes) = 0 \/ ~AllValid(args.notes) THEN ret = Err
    ELSE IsSumOf(args.notes)

\* What CombineNotesSerial does: as C18 says while the sum is a finite
\* float64, and the zero note when the sum overflows to +Inf.
C18_CombineBelowOverflow ==
  op = "CombineNotesSerial" =>
    IF Len(args.notes) = 0 \/ ~AllValid(args.notes) THEN ret = Err
    ELSE IF isFinite(SumDifficulties(args.notes, Zero).val)
    THEN IsSumOf(args.notes)
    ELSE ret = Ok(ZeroSharenote)

\* The sum of 1100Z00 alone overflows and the zero note comes back.
C18_OverflowIsTheZeroNote ==
  /\ op = "CombineNotesSerial"
  /\ args.notes = <<Note(Sharenote(1100, 0, Fin(1100 * centZUnitsPerZ, 0)))>>
  /\ ret = Ok(ZeroSharenote)

\* The options of an EstimateNote call after the loop over opts.
EstimateCfg == ApplyEstimateOptions(defaultEstimateOptions, args.opts).cfg

\* C19: EstimateNote returns the explicitly set primary mode when
\* WithEstimatePrimaryMode set one (mean or quantile); otherwise quantile iff
\* a confidence was configured and mean if not.  RequiredHashratePrimary is
\* RequiredHashrateQuantile in quantile mode and RequiredHashrateMean in mean
\* mode, and RequiredHashrateHuman humanises that same value.
C19_ExplicitModeWins ==
  (op = "EstimateNote" /\ ret.out = "ok") =>
    /\ ret.val.PrimaryMode =
         IF EstimateCfg.primaryMode # "" THEN EstimateCfg.primaryMode
         ELSE IF EstimateCfg.quantile # <<>> THEN PrimaryModeQuantile
         ELSE PrimaryModeMean
    /\ ret.val.RequiredHashratePrimary =
         IF ret.val.PrimaryMode = PrimaryModeQuantile
         THEN ret.val.RequiredHashrateQuantile
         ELSE ret.val.RequiredHashrateMean
    /\ ret.val.RequiredHashrateHuman =
         HumaniseHashrate(ret.val.RequiredHashratePrimary, <<>>)

\* C19 as the code has it: the primary mode is quantile iff a confidence is
\* in force and the mode was not explicitly set to mean; an explicit quantile
\* mode without a confidence gives mean.
C19_QuantileNeedsAConfidence ==
  (op = "EstimateNote" /\ ret.out = "ok") =>
    /\ ret.val.PrimaryMode \in {PrimaryModeMean, PrimaryModeQuantile}
    /\ ret.val.PrimaryMode = PrimaryModeQuantile <=>
         (EstimateCfg.quantile # <<>> /\ EstimateCfg.primaryMode # PrimaryModeMean)
    /\ ret.val.Quantile = quantileCopy(EstimateCfg)
    /\ ret.val.RequiredHashratePrimary =
         IF ret.val.PrimaryMode = PrimaryModeQuantile
         THEN ret.val.RequiredHashrateQuantile
         ELSE ret.val.RequiredHashrateMean
    /\ ret.val.RequiredHashrateHuman =
         HumaniseHashrate(ret.val.RequiredHashratePrimary, <<>>)

\* 33Z53 over 5 seconds at 95% confidence: the primary value is the
\* quantile, 7.43 GH/s, above the mean.
C19_Witness ==
  /\ op = "EstimateNote"
  /\ args.note = Str(<<"3", "3", "Z", "5", "3">>)
  /\ args.opts = <<WithEstimateConfidence(Confidence(95, 0))>>
  /\ ret.out = "ok"
  /\ ret.val.PrimaryMode = PrimaryModeQuantile
  /\ ret.val.RequiredHashratePrimary = ret.val.RequiredHashrateQuantile
  /\ ret.val.RequiredHashratePrimary # ret.val.RequiredHashrateMean
  /\ ret.val.RequiredHashrateHuman.Unit = <<"G", "H", "/", "s">>

\* An explicit quantile mode with no confidence comes back as mean.
C19_ExplicitQuantileIsMean ==
  /\ op = "EstimateNote"
  /\ args.opts = <<WithEstimatePrimaryMode(PrimaryModeQuantile)>>
  /\ ret.out = "ok"
  /\ ret.val.PrimaryMode = PrimaryModeMean

\* The Zero value HumaniseHashrate returns for a hashrate it cannot show.
ZeroHuman ==
  HumanHashrate(Zero, <<"H", "/", "s">>, <<"0", " ", "H", "/", "s">>, 0)

\* min(7, max(0, floor(log10(v) / 3))) of the real number v.
ExponentOf(v) == Cardinality({k \in 1..7 : AtLeast(v, Pow1000(k))})

\* v / 1000^exponent
ScaledBy(v, exponent) ==
  IF v.k = "under"
  THEN Nextafter(Div(Pos(v.c, v.n), Pow1000(exponent)))
  ELSE Div(v, Pow1000(exponent))

\* 1 <= v < 1000^exponent
FromOneBelow(v, exponent) ==
  AtLeast(v, One) /\ ~AtLeast(v, Pow1000(exponent))

\* C20: for a finite v > 0, HumaniseHashrate(v) returns the Exponent
\* min(7, max(0, floor(log10(v)/3))), the Unit at that place of H/s, kH/s,
\* MH/s, GH/s, TH/s, PH/s, EH/s, ZH/s and the Value v / 1000^Exponent, so
\* that 1 <= Value < 1000 whenever 1 <= v < 10^24; for v <= 0 or a
\* non-finite v it returns Value 0, Unit H/s, Exponent 0, Display "0 H/s".
C20_HumaniseHashrate ==
  op = "HumaniseHashrate" =>
    IF isFinite(args.hashrate) /\ ~LeqZero(args.hashrate)
    THEN /\ ret.Exponent = ExponentOf(args.hashrate)
         /\ ret.Unit = hashrateUnits[ret.Exponent + 1].unit
         /\ ret.Value = ScaledBy(args.hashrate, ret.Exponent)
         /\ FromOneBelow(args.hashrate, 8) => FromOneBelow(ret.Value, 1)
    ELSE ret = ZeroHuman

\* The hashrate is the float64 just under 1000^k for some k of 1..7.
JustUnderAUnit(v) == v.k = "under" /\ \E k \in 1..7 : Pos(v.c, v.n) = Pow1000(k)

\* What HumaniseHashrate does: as C20 says, except that the float64 just
\* under the power of 1000 of a unit is shown in that unit, with the Value
\* just under 1.
C20_HumaniseAwayFromTheUnits ==
  op = "HumaniseHashrate" =>
    IF ~isFinite(args.hashrate) \/ LeqZero(args.hashrate) THEN ret = ZeroHuman
    ELSE /\ ret.Unit = hashrateUnits[ret.Exponent + 1].unit
         /\ ret.Value = ScaledBy(args.hashrate, ret.Exponent)
         /\ IF JustUnderAUnit(args.hashrate)
            THEN /\ ret.Exponent = ExponentOf(args.hashrate) + 1
                 /\ ret.Value = Nextafter(One)
            ELSE /\ ret.Exponent = ExponentOf(args.hashrate)
                 /\ FromOneBelow(args.hashrate, 8)
                      => FromOneBelow(ret.Value, 1)

\* math.Nextafter(1000, 0) is shown as 0.9999999999999999 kH/s.
C20_JustUnderAThousand ==
  /\ op = "HumaniseHashrate"
  /\ args.hashrate = Nextafter(Pow1000(1))
  /\ ret.Unit = <<"k", "H", "/", "s">>
  /\ ret.Exponent = 1
  /\ ret.Value = Nextafter(One)

\* 3.2e9 is shown in GH/s.
C20_ThreeGigahashes ==
  /\ op = "HumaniseHashrate"
  /\ args.hashrate = Pos(3157, 542475909)
  /\ ret.Unit = <<"G", "H", "/", "s">>
  /\ ret.Exponent = 3
  /\ FromOneBelow(ret.Value, 1)

\* The place of the unit's prefix in (none, K, M, G, T, P, E, Z) when the
\* unit is that prefix and H/s in any case, and -1 for any other text.
PrefixIndex(unit) ==
  LET upper == ToUpper(unit)
      fits == {i \in 1..Len(hashrateUnits) : ToUpper(hashrateUnits[i].unit) = upper}
  IN IF fits = {} THEN -1 ELSE (CHOOSE i \in fits : TRUE) - 1

\* m is a magnitude a hashrate can have: finite and not negative.
GoodMagnitude(m) == isFinite(m) /\ ~IsNeg(m)

\* The named units and magnitudes give the results C21 names, in the
\* NormalizeHashrateValue call that follows a ParseHashrate call.
NamedUnitsResolve ==
  /\ (GoodMagnitude(args.magnitude.value) /\ PrefixIndex(args.unit) >= 0) =>
       ret = OkQ(Mul(args.magnitude.value, Pow1000(PrefixIndex(args.unit))))
  /\ (GoodMagnitude(args.magnitude.value) /\ args.unit = <<>>) =>
       ret = OkQ(args.magnitude.value)
  /\ (~GoodMagnitude(args.magnitude.value)
        \/ args.unit \in {<<"f", "o", "o", "/", "s">>, <<"Y", "H", "/", "s">>}) =>
       ret = ErrQ

\* C21: ParseHashrate("<m> <unit>") and NormalizeHashrateValue({m, unit})
\* resolve units identically: for a unit with the prefix at index i of
\* (none, K, M, G, T, P, E, Z), in any case, both return m * 1000^i H/s; an
\* empty unit means H/s; an unrecognised unit or a negative or non-finite
\* magnitude is an error from both.
C21_SameUnitResolution ==
  op = "NormalizeHashrateValue" => (args.parsed = ret /\ NamedUnitsResolve)

\* What the two do: they agree on every unit written with letters, "/",
\* "-" and white space, which is all the pattern of ParseHashrate lets
\* through.
C21_SameResolutionOfPlainUnits ==
  op = "NormalizeHashrateValue" =>
    /\ NamedUnitsResolve
    /\ (\A i \in 1..Len(args.unit) : args.unit[i] \in UnitChars) =>
         args.parsed = ret

\* 5 G_H/s: the structured value is 5e9 H/s and the text is refused.
C21_UnderscoreUnit ==
  /\ op = "NormalizeHashrateValue"
  /\ args.unit = <<"G", "_", "H", "/", "s">>
  /\ args.magnitude.text = <<"5">>
  /\ args.parsed = ErrQ
  /\ ret = OkQ(Mul(Pos(232, 192809488), Pow1000(3)))

\* The operations that take a list of options.
OptionTaking ==
  { "RequiredHashrate", "HashrateRangeForNote", "NoteFromHashrate",
    "EstimateNote", "PlanSharenoteFromHashrate" }

\* The option carries a value C23 calls invalid: a confidence outside (0,1),
\* an unknown ReliabilityID or an unknown PrimaryMode.
InvalidOption(opt) ==
  \/ /\ opt.opt \in {"WithConfidence", "WithEstimateConfidence", "WithPlanConfidence"}
     /\ ConfidenceLeqZero(opt.confidence) \/ ConfidenceGeqOne(opt.confidence)
  \/ /\ opt.opt \in {"WithReliability", "WithEstimateReliability", "WithPlanReliability"}
     /\ opt.id \notin DOMAIN reliabilityLevels
  \/ /\ opt.opt = "WithEstimatePrimaryMode"
     /\ opt.mode \notin {PrimaryModeMean, PrimaryModeQuantile}

HasInvalidOption(opts) == \E i \in 1..Len(opts) : InvalidOption(opts[i])
HasNilOption(opts) == \E i \in 1..Len(opts) : opts[i].opt = "nil"

\* C23: an invalid value supplied through an option (a confidence outside
\* (0,1), an unknown ReliabilityID, an unknown PrimaryMode) makes the
\* operation that receives the option return an error.
C23_InvalidOptionIsAnError ==
  (op \in OptionTaking /\ HasInvalidOption(args.opts)
     /\ ~HasNilOption(args.opts)) => ret.out = "err"

\* What the operations do: an option with an invalid value changes nothing,
\* the call returns what it returns without that option.
C23_InvalidOptionIsIgnored ==
  /\ op = "RequiredHashrate" =>
       ret = RequiredHashrate(args.note, args.seconds,
               SelectSeq(args.opts, LAMBDA o : ~InvalidOption(o)))
  /\ op = "NoteFromHashrate" =>
       ret = NoteFromHashrate(args.hashrate, args.seconds,
               SelectSeq(args.opts, LAMBDA o : ~InvalidOption(o)))
  /\ op = "EstimateNote" =>
       ret = EstimateNote(args.note, args.seconds,
               SelectSeq(args.opts, LAMBDA o : ~InvalidOption(o)))
  /\ op = "PlanSharenoteFromHashrate" =>
       ret = PlanSharenoteFromHashrate(args.hashrate, args.seconds,
               SelectSeq(args.opts, LAMBDA o : ~InvalidOption(o)))

\* A confidence of 1.5 is accepted: the estimate of 33Z53 over 5 seconds
\* comes back as if no option had been given.
C23_ConfidenceAboveOneIsAccepted ==
  /\ op = "EstimateNote"
  /\ args.opts = <<WithEstimateConfidence(Confidence(150, 0))>>
  /\ ret.out = "ok"
  /\ ret.val.Quantile = <<>>
  /\ ret.val.Multiplier = One

\* The options of the plan are reliabilities only: WithPlanReliability or
\* WithPlanConfidence.
ReliabilityOnly(opts) ==
  \A i \in 1..Len(opts) :
    opts[i].opt \in {"WithPlanReliability", "WithPlanConfidence"}

\* The same reliability as a list of hashrate options.
AsHashrateOptions(opts) ==
  [i \in 1..Len(opts) |->
     IF opts[i].opt = "WithPlanReliability" THEN WithReliability(opts[i].id)
     ELSE WithConfidence(opts[i].confidence)]

\* A plan was asked for a hashrate h > 0 over s > 0 seconds, both finite,
\* under reliabilities only.
PlanOfAReliability ==
  /\ op = "PlanSharenoteFromHashrate"
  /\ ReliabilityOnly(args.opts)
  /\ isFinite(args.seconds) /\ ~LeqZero(args.seconds)
  /\ NormalizeHashrateValue(args.hashrate).out = "ok"
  /\ ~LeqZero(NormalizeHashrateValue(args.hashrate).val)

\* |a - b| / b <= 0.02 for two positive values: a / b is between 0.98 and
\* 1.02.
WithinTwoPercent(a, b) ==
  /\ ~LgLess(Div(a, b), Pos(-3, 85365435))
  /\ ~LgLess(Pos(2, 856915219), Div(a, b))

\* The plan agrees with NoteFromHashrate and its bill reproduces the input.
PlanMatches(expected) ==
  /\ ret.out = "ok"
  /\ Label(ret.val.Sharenote) = Label(expected.note)
  /\ ret.val.Bill.Multiplier =
       ApplyHashrateOptions(hashrateOptions, AsHashrateOptions(args.opts),
                            FALSE).cfg.multiplier
  /\ ret.val.InputHashrateHPS = NormalizeHashrateValue(args.hashrate).val
  /\ WithinTwoPercent(ret.val.Bill.RequiredHashratePrimary,
                      ret.val.InputHashrateHPS)

C24_NoNoteForOneHash ==
  /\ op = "PlanSharenoteFromHashrate"
  /\ args.hashrate = HashrateValue(One, <<"H", "/", "s">>)
  /\ args.seconds = One
  /\ args.opts = <<WithPlanReliability(ReliabilityOften95)>>
  /\ ret.out = "err"

------------------------------------------------------------------------------
(* Storage shared with the package                                          *)

\* What the call made after a store returned, next to what the same call
\* returned before it.
AfterStore == op \in {"ReliabilityLevelsAfterStore", "EstimateNoteAfterStore",
                      "RequiredHashrateAfterStore"}
BeforeStore ==
  CASE op = "ReliabilityLevelsAfterStore" -> args.before.levels
    [] op = "EstimateNoteAfterStore" -> args.before.estimate
    [] op = "RequiredHashrateAfterStore" -> args.before.hashrate

\* C28: no returned value shares storage with the package: after a store
\* through the Confidence pointer of a level that ReliabilityLevels() returned,
\* or through the Quantile pointer of a BillEstimate, ReliabilityLevels(),
\* EstimateNote with WithEstimateReliability and RequiredHashrate with
\* WithReliability return what they returned before the store.
C28_StoresAreNotSeen == AfterStore => ret = BeforeStore

\* C28 as the code has it: the Quantile of a BillEstimate is a cell of its
\* own, and a store through it is seen by no later call.
C28_QuantileIsACopy ==
  (AfterStore /\ heap = floatPtrCells) => ret = BeforeStore

\* C28 as the code has it: a store through a level's Confidence changes the
\* package's cell; the multipliers, and so the hashrates, stay as they were.
C28_MultipliersAreKept ==
  /\ heap # floatPtrCells =>
       /\ op \in {"StoreConfidence"} \cup
                 {"ReliabilityLevelsAfterStore", "EstimateNoteAfterStore",
                  "RequiredHashrateAfterStore"}
       /\ heap = [floatPtrCells EXCEPT ![args.level] = args.value]
  /\ op = "RequiredHashrateAfterStore" => ret = BeforeStore
  /\ op = "EstimateNoteAfterStore" =>
       ret = [BeforeStore EXCEPT !.val.Quantile = <<heap[args.level]>>]

\* After *lvl.Confidence = 0.5 on the 90% preset, ReliabilityLevels() reports
\* a confidence of 0.5 for it.
C28_StoredConfidenceIsListed ==
  /\ op = "ReliabilityLevelsAfterStore"
  /\ args.level = ReliabilityUsually90
  /\ args.value = Confidence(50, 0)
  /\ args.before.levels[2].Confidence = <<Confidence(90, 0)>>
  /\ ret[2].Confidence = <<Confidence(50, 0)>>

\* After the same store, EstimateNote with the 90% preset reports the
\* quantile 0.5 with the multiplier of 90%.
C28_StoredConfidenceIsEstimated ==
  /\ op = "EstimateNoteAfterStore"
  /\ args.level = ReliabilityUsually90
  /\ args.before.estimate.val.Quantile = <<Confidence(90, 0)>>
  /\ ret.out = "ok"
  /\ ret.val.Quantile = <<Confidence(50, 0)>>
  /\ ret.val.Multiplier = reliabilityLevels[ReliabilityUsually90].Multiplier

\* A store through a BillEstimate's Quantile, and the same estimate after it.
C28_StoredQuantileIsNotSeen ==
  /\ op = "EstimateNoteAfterStore"
  /\ heap = floatPtrCells
  /\ args.value = Confidence(50, 0)
  /\ ret = args.before.estimate
  /\ ret.val.Quantile = <<Confidence(95, 0)>>

------------------------------------------------------------------------------
(* The confidence and the multiplier of an estimate                         *)

\* A BillEstimate whose Quantile, when set, is the confidence of its
\* Multiplier, and whose primary mode is quantile only with a Quantile.
QuantileAgrees(bill) ==
  /\ bill.Quantile # <<>> =>
       bill.Multiplier = NegLogOneMinus(bill.Quantile[1])
  /\ bill.PrimaryMode = PrimaryModeQuantile => bill.Quantile # <<>>

\* C25: in every BillEstimate returned by EstimateNote, Quantile is non-nil
\* only if Multiplier is -ln(1 - Quantile), and PrimaryMode is quantile only
\* if Quantile is non-nil.
C25_QuantileMatchesMultiplier ==
  (op \in {"EstimateNote", "EstimateNoteAfterStore"} /\ ret.out = "ok")
    => QuantileAgrees(ret.val)

\* C25 as the code has it: the two agree as long as no caller has stored
\* through a preset's Confidence pointer.
C25_QuantileMatchesUnlessStored ==
  (op \in {"EstimateNote", "EstimateNoteAfterStore"} /\ ret.out = "ok"
   /\ heap = floatPtrCells)
    => QuantileAgrees(ret.val)

\* After 0.5 was stored in the 90% preset's confidence, the estimate for that
\* preset carries the quantile 0.5 with the multiplier 2.30 of 90%, where
\* -ln(1 - 0.5) is 0.69.
C25_QuantileOfAStoredConfidence ==
  /\ op = "EstimateNoteAfterStore"
  /\ ret.out = "ok"
  /\ ret.val.Quantile = <<Confidence(50, 0)>>
  /\ ret.val.Multiplier = Pos(120, 325447269)
  /\ NegLogOneMinus(Confidence(50, 0)) = Pos(-53, 123362705)
  /\ ret.val.PrimaryMode = PrimaryModeQuantile

\* An estimate with a confidence option last and one with a multiplier option
\* last: the first has both, the second has no Quantile.
C25_OptionsKeepThemTogether ==
  /\ op = "EstimateNote"
  /\ ret.out = "ok"
  /\ Len(args.opts) = 2
  /\ args.opts[1] = WithEstimateMultiplier(Pos(100, 0))
  /\ args.opts[2] = WithEstimateReliability(ReliabilityOften95)
  /\ ret.val.Quantile = <<Confidence(95, 0)>>
  /\ ret.val.Multiplier = Pos(158, 290869693)

------------------------------------------------------------------------------
(* The compact value of a target                                            *)

\* The compact value that the text of SharenoteToNBits spells: two hex
\* digits of exponent, six of mantissa.
CompactOfText(hex) ==
  Compact(ParseHex(SubSeq(hex, 1, 2)), ParseHex(SubSeq(hex, 3, 8)))

\* mantissa * 256^(exponent-3) is at most the target and at least the target
\* minus 256^(exponent-3).  With exponent below 3 the unit 256^(exponent-3)
\* is a fraction and the target, a whole number, is compared in that unit;
\* otherwise q is the whole part of target / 256^(exponent-3), and the
\* mantissa is q, or q - 1 when the division is exact.
TruncatedTarget(compact, target) ==
  LET shift == 8 * (compact.exponent - 3)
  IN IF shift <= 0
     THEN /\ target.hi = 0 /\ target.exp = 0 /\ target.lo < 2^(24 + shift)
          /\ compact.mantissa <= target.lo * 2^(-shift)
          /\ compact.mantissa >= target.lo * 2^(-shift) - 1
     ELSE /\ shift >= target.exp
          /\ shift - target.exp <= 48
          /\ LET q == Rsh(target.hi, target.lo, shift - target.exp)
                 back == Rsh(q[2], 0, 24 - (shift - target.exp))
                 exact == shift - target.exp <= 24 /\ q[1] = 0
                            /\ back = <<target.hi, target.lo>>
             IN /\ q[1] = 0
                /\ \/ compact.mantissa = q[2]
                   \/ compact.mantissa = q[2] - 1 /\ exact

\* The note's target is a positive integer.
PositiveTarget(note) ==
  /\ TargetFor(note).out = "ok"
  /\ BigSign(TargetFor(note).val) > 0

\* C26: for every positive target the compact value of targetToCompact, and
\* so the text of SharenoteToNBits, has the mantissa's 0x00800000 bit clear,
\* 0 < mantissa < 2^24, 1 <= exponent <= 255, and mantissa * 256^(exponent-3)
\* is the target with only low-order bytes cut off: never above the target
\* and at least the target minus 256^(exponent-3).
C26_CompactIsTheTruncatedTarget ==
  (op = "SharenoteToNBits" /\ PositiveTarget(args.note)) =>
    With(targetToCompact(TargetFor(args.note).val), LAMBDA compact :
      IF compact.out = "err"
      THEN /\ ret.out = "err"
           /\ BigBitLen(TargetFor(args.note).val) > 8 * 255 - 1
      ELSE /\ ret.out = "ok"
           /\ IsNBitsText(ret.val)
           /\ CompactOfText(ret.val) = compact.val
           /\ compact.val.mantissa < Limb \div 2
           /\ compact.val.mantissa > 0
           /\ compact.val.exponent >= 1
           /\ compact.val.exponent <= 255
           /\ TruncatedTarget(compact.val, TargetFor(args.note).val))

\* 248Z50 has the target 181 = 0xb5, one byte with its top bit set: the
\* mantissa moves down a byte and the compact value is 0x0200b500.
C26_Witness ==
  /\ op = "SharenoteToNBits"
  /\ args.note = Note(NoteFromComponents(248, 50).note)
  /\ TargetFor(args.note) = OkQ(BigInt(0, 181, 0))
  /\ ret = OkQ(<<"0", "2", "0", "0", "b", "5", "0", "0">>)

\* 33Z00 has the target 2^223, 28 bytes: the compact value is 0x1d008000,
\* again after the move of a byte.
C26_WideTarget ==
  /\ op = "SharenoteToNBits"
  /\ args.note = Note(NoteFromComponents(33, 0).note)
  /\ ret = OkQ(<<"1", "d", "0", "0", "8", "0", "0", "0">>)

------------------------------------------------------------------------------
(* The nBits convention                                                     *)

\* The text NBitsToSharenote decodes: lower case, without "0x" and without
\* white space around it.
CleanedNBits(hex) == TrimSpace(TrimPrefix(ToLower(hex), <<"0", "x">>))

\* 256 - log2(mantissa * 256^(exponent-3)) with exponent-3 a signed number.
ConventionZBits(exponent, mantissa) ==
  From256(Fin(Log2MantissaTable[mantissa][1]
                + 8 * (exponent - 3) * centZUnitsPerZ,
              Log2MantissaTable[mantissa][2]))

\* The call is NBitsToSharenote(args.hex); the exponent bytes from low up to
\* 255 follow the convention: the note of 256 - log2(target) when that is not
\* negative, and an error for a text that is not eight hex characters or has
\* a zero mantissa.
FollowsConvention(low) ==
  (op \in {"NBitsToSharenote", "NBitsToSharenoteOfNBits"}) =>
    LET cleaned == CleanedNBits(args.hex)
        exponent == ParseHex(SubSeq(cleaned, 1, 2))
        mantissa == ParseHex(SubSeq(cleaned, 3, 8))
    IN IF Len(cleaned) # 8 \/ ~IsHex(cleaned) THEN ret.out = "err"
       ELSE IF mantissa = 0 THEN ret.out = "err"
       ELSE (exponent >= low
             /\ ~IsNegative(ConventionZBits(exponent, mantissa))) =>
              /\ ret.out = "ok"
              /\ ret = NoteFromZBits(ConventionZBits(exponent, mantissa))

\* C27: NBitsToSharenote follows the nBits convention for every exponent
\* byte: for eight hex characters with a non-zero mantissa the target is
\* mantissa * 256^(exponent-3), also for the exponent bytes 0, 1 and 2, and
\* the call returns the note with ZBits = 256 - log2(target) whenever that is
\* at least 0; a text that is not eight hex characters or has a zero mantissa
\* yields an error.
C27_NBitsConvention == FollowsConvention(0)

\* C27 as the code has it: the convention is followed from the exponent byte
\* 3 up, and an exponent byte of 0, 1 or 2 is an error.
C27_ConventionFromThreeUp ==
  /\ FollowsConvention(3)
  /\ (/\ op \in {"NBitsToSharenote", "NBitsToSharenoteOfNBits"}
      /\ Len(CleanedNBits(args.hex)) = 8
      /\ IsHex(CleanedNBits(args.hex))
      /\ ParseHex(SubSeq(CleanedNBits(args.hex), 1, 2)) < 3) =>
       ret.out = "err"

\* "02000001" is the target 1/256, 264 bits, and is refused.
C27_ExponentTwoIsRefused ==
  /\ op = "NBitsToSharenote"
  /\ args.hex = <<"0", "2", "0", "0", "0", "0", "0", "1">>
  /\ ConventionZBits(2, 1) = Fin(26400, 0)
  /\ NoteFromZBits(Fin(26400, 0)).out = "ok"
  /\ ret.out = "err"

\* "03000001" is the target 1, 256 bits, and decodes to 256Z00.
C27_ExponentThree ==
  /\ op = "NBitsToSharenote"
  /\ args.hex = <<"0", "3", "0", "0", "0", "0", "0", "1">>
  /\ ret.out = "ok"
  /\ ret.note.Z = 256 /\ ret.note.Cents = 0

------------------------------------------------------------------------------
(* Nil options                                                              *)

DropNil(opts) == SelectSeq(opts, LAMBDA o : o.opt # "nil")

\* What the call returns for the same arguments without the nil options.
SameWithoutNil ==
  CASE op = "RequiredHashrate" ->
         RequiredHashrate(args.note, args.seconds, DropNil(args.opts))
    [] op = "HashrateRangeForNote" ->
         HashrateRangeForNote(args.note, args.seconds, DropNil(args.opts))
    [] op = "NoteFromHashrate" ->
         NoteFromHashrate(args.hashrate, args.seconds, DropNil(args.opts))
    [] op = "EstimateNote" ->
         EstimateNote(args.note, args.seconds, DropNil(args.opts))
    [] op = "PlanSharenoteFromHashrate" ->
         PlanSharenoteFromHashrate(args.hashrate, args.seconds,
                                   DropNil(args.opts))
    [] op = "HumaniseHashrate" ->
         HumaniseHashrate(args.hashrate, DropNil(args.opts))

\* The call did not return: it called a nil function value.
Panicked == "out" \in DOMAIN ret /\ ret.out = "panic"

\* C30: a nil option is handled alike by all operations that take options:
\* RequiredHashrate, NoteFromHashrate, EstimateNote and
\* PlanSharenoteFromHashrate ignore a nil entry of their option list as
\* HashrateRangeForNote and HumaniseHashrate do, returning a result or an
\* error and never panicking.
C30_NilOptionIsIgnored ==
  (op \in OptionTaking \cup {"HumaniseHashrate"} /\ HasNilOption(args.opts)) =>
    ~Panicked /\ ret = SameWithoutNil

\* C30 as the code has it: HashrateRangeForNote and HumaniseHashrate skip a
\* nil entry; the other four return the error of an argument they test before
\* the options, and panic otherwise.
C30_NilOptionIsIgnoredByTwo ==
  /\ (op \in {"HashrateRangeForNote", "HumaniseHashrate"}
      /\ HasNilOption(args.opts)) =>
       ~Panicked /\ ret = SameWithoutNil
  /\ (op \in OptionTaking \ {"HashrateRangeForNote"}
      /\ HasNilOption(args.opts)) =>
       Panicked \/ (ret.out = "err" /\ ret = SameWithoutNil)

\* RequiredHashrate("33Z53", 5, nil) panics.
C30_NilOptionPanics ==
  /\ op = "RequiredHashrate"
  /\ args.note = Str(<<"3", "3", "Z", "5", "3">>)
  /\ args.seconds = Pos(232, 192809488)
  /\ args.opts = <<NilOption>>
  /\ Panicked

\* HumaniseHashrate(3.2e9, nil) returns what HumaniseHashrate(3.2e9) does.
C30_NilOptionSkipped ==
  /\ op = "HumaniseHashrate"
  /\ args.hashrate = Pos(3157, 542475909)
  /\ args.opts = <<NilHumanHashrateOption>>
  /\ ret = HumaniseHashrate(Pos(3157, 542475909), <<>>)
  /\ ret.Exponent = 3

------------------------------------------------------------------------------
(* Displays parse back                                                      *)

\* The number that a Display starts with, as ParseHashrate reads it.
MagnitudeOfDisplay(input) ==
  ParseFloat64Table[hashrateStringPattern(TrimSpace(input)).g1]

\* C29: for every finite hashrate v > 0, ParseHashrate of the Display of
\* HumaniseHashrate(v) succeeds and resolves the unit to the exponent that
\* HumaniseHashrate chose: each of the eight units of hashrateUnits is
\* accepted by resolveHashrateUnit and mapped back to the same unit and the
\* same power of 1000.
C29_DisplayParsesBack ==
  /\ \A i \in 1..Len(hashrateUnits) :
       resolveHashrateUnit(hashrateUnits[i].unit)
         = [out |-> "ok", unit |-> hashrateUnits[i].unit,
            exponent |-> hashrateUnits[i].exponent]
  /\ (/\ op = "ParseHashrateOfDisplay"
      /\ isFinite(args.hashrate)
      /\ ~LeqZero(args.hashrate)) =>
       /\ ret.out = "ok"
       /\ resolveHashrateUnit(args.human.Unit).exponent = args.human.Exponent
       /\ ret.val = Mul(MagnitudeOfDisplay(args.input).val,
                        Pow1000(args.human.Exponent))

\* 3.2e9 H/s is displayed as "3.20 GH/s", which parses to 3.2e9.
C29_Witness ==
  /\ op = "ParseHashrateOfDisplay"
  /\ args.hashrate = Pos(3157, 542475909)
  /\ args.input = <<"3", ".", "2", "0", " ", "G", "H", "/", "s">>
  /\ args.human.Exponent = 3
  /\ ret = OkQ(Pos(3157, 542475909))

\* The float64 just under 1000 is displayed as "1.00 kH/s", which parses to
\* 1000 with the exponent 1 of the display.
C29_JustUnderAThousand ==
  /\ op = "ParseHashrateOfDisplay"
  /\ args.hashrate = Nextafter(Pow1000(1))
  /\ args.input = <<"1", ".", "0", "0", " ", "k", "H", "/", "s">>
  /\ args.human.Exponent = 1
  /\ ret = OkQ(Pow1000(1))

------------------------------------------------------------------------------
(* Concurrent calls                                                         *)

====
